---- MODULE Spec2Model ----
(***************************************************************************)
(* pathFinder: the privileged mount/unmount orchestrator of                *)
(* src/path_finder/mount_data.py, modelled over an explicit filesystem     *)
(* (existing paths, owners, modes, mount table).                           *)
(*                                                                         *)
(* Strings are tuples of one-character strings, a path is the tuple of its *)
(* pathlib parts (an absolute path starts with the part "/").              *)
(*                                                                         *)
(* The operating system is the environment: bindfs and mount --bind may    *)
(* return non-zero, mount --bind may return 0 without having mounted,      *)
(* umount fails when nothing is mounted on its target or when the target   *)
(* is busy, unlink of a mount point raises, chown and chmod of a missing   *)
(* path raise, "/" is a mount point.  An uncaught OSError ends the request *)
(* with outcome "Exception" (traceback, exit status 1).  What lies below a *)
(* mounted directory, and the file/directory distinction, are not          *)
(* modelled.                                                               *)
(*                                                                         *)
(* Spec runs requests one after the other; SpecConcurrent runs two mount   *)
(* invocations of the same user at once; SpecLegacy runs the script        *)
(* src/bash_scripts/pathFinder.py, one run of its main() per step, over    *)
(* the same filesystem; SpecResolve runs extract_rse_path of               *)
(* src/path_finder/path_finder.py on bounded lists of data locations, one  *)
(* loop iteration per step, the namespace pattern being matched as the     *)
(* regular expression it is compiled to (a "." matches any character).     *)
(* SpecSameLeaf is Spec with the requests of one user for two paths of     *)
(* one leaf name.  SpecMain runs main of path_finder.py, one call of main  *)
(* per step, the answers of the two APIs and the result of the sudo        *)
(* command being the environment's.  SpecAuth runs authenticate of         *)
(* src/path_finder/oauth2_auth.py over a token cache file and a clock in   *)
(* seconds; SpecPoll runs its polling loop alone, one turn per step, over  *)
(* all the answers of the authn service.                                   *)
(***************************************************************************)
EXTENDS Integers, Sequences, FiniteSets, TLC

VARIABLES
    fs,        \* the filesystem: [ex, own, mode, mtab]
    procs,     \* the invocations that may run
    pc,        \* pc[p]: position of invocation p
    req,       \* req[p]: the request (argv and environment) of invocation p
    plan,      \* plan[p]: the paths derived by parse_rse_path / prepare_mount_paths
    outcome,   \* outcome[p]: how the request ended ("none" while it runs)
    log,       \* log[p]: the filesystem calls and commands the request issued
    msgs,      \* msgs[p]: the diagnostics the request printed
    pre,       \* pre[p]: the filesystem as the request found it (at its start and,
               \* for a mount, again at its cycle check, its first look at it)
    track,     \* history of the immediately preceding requests
    nreq,      \* number of requests started
    rs,        \* the run of extract_rse_path: its arguments, locals and result
    mn,        \* the run of path_finder.main: its arguments, locals and steps
    au         \* the token cache file, the clock and the run of authenticate

vars == <<fs, procs, pc, req, plan, outcome, log, msgs, pre, track, nreq, rs, mn, au>>

\* ---------------------------------------------------------------- bounds
MaxRequests == 3

Procs == {1, 2}

\* ---------------------------------------------------------------- strings
ROOT == <<"/">>
S_daac == <<"d", "a", "a", "c">>
S_other == <<"o", "t", "h">>
S_home == <<"h", "o", "m", "e">>
S_binds == <<".", "b", "i", "n", "d", "s">>
S_projects == <<"p", "r", "o", "j", "e", "c", "t", "s">>
S_alice == <<"a", "l", "i", "c", "e">>
S_bob == <<"b", "o", "b">>
S_skadata_prefix == <<"/", "s", "k", "a", "d", "a", "t", "a", "/">>

\* the command-line paths tried: "", "f.fits", "daac/f.fits", "daac/f/g.fits",
\* "/f.fits", "/daac/", "/daac/f.fits"; and, with one user and one group,
\* "daac/b/f.fits"
R_empty == <<>>
R_leaf == <<"f", ".", "f", "i", "t", "s">>
R_rel == S_daac \o <<"/">> \o R_leaf
R_nested == S_daac \o <<"/", "f", "/", "g", ".", "f", "i", "t", "s">>
R_sibling == S_daac \o <<"/", "b", "/">> \o R_leaf
R_absleaf == <<"/">> \o R_leaf
R_absdir == <<"/">> \o S_daac \o <<"/">>
R_abs == <<"/">> \o R_rel

RsePaths == {R_empty, R_leaf, R_rel, R_nested, R_absleaf, R_absdir, R_abs}
Groups == {S_daac, S_other}
Envs == {[euid |-> 0, sudo_user |-> S_alice],
         [euid |-> 0, sudo_user |-> S_bob],
         [euid |-> 0, sudo_user |-> <<>>],
         [euid |-> 1000, sudo_user |-> S_alice]}
Ops == {"mount", "unmount"}

\* the system identity database (pwd)
Passwd == [u \in {S_alice} |-> [uid |-> 1000, gid |-> 1000]]

\* ---------------------------------------------------------------- pathlib
RECURSIVE SplitParts(_, _, _, _)
SplitParts(s, i, cur, acc) ==
    LET flushed == IF cur = <<>> \/ cur = <<".">> THEN acc ELSE Append(acc, cur)
    IN  IF i > Len(s) THEN flushed
        ELSE IF s[i] = "/" THEN SplitParts(s, i + 1, <<>>, flushed)
        ELSE SplitParts(s, i + 1, Append(cur, s[i]), acc)

\* Path(s).parts
PathOf(s) ==
    IF Len(s) > 0 /\ s[1] = "/"
    THEN <<ROOT>> \o SplitParts(s, 1, <<>>, <<>>)
    ELSE SplitParts(s, 1, <<>>, <<>>)

IsAbsolute(p) == Len(p) > 0 /\ p[1] = ROOT

\* Path.name
PathName(p) == IF p = <<>> \/ p = <<ROOT>> THEN <<>> ELSE p[Len(p)]

\* Path.parent
PathParent(p) == IF Len(p) <= 1 THEN (IF p = <<ROOT>> THEN p ELSE <<>>)
                 ELSE SubSeq(p, 1, Len(p) - 1)

\* Path.parents[-1]
TopParent(p) == IF IsAbsolute(p) THEN <<ROOT>> ELSE <<>>

\* Path.relative_to(base), base a prefix of p
RelativeTo(p, base) == SubSeq(p, Len(base) + 1, Len(p))

\* a / b
Join(a, b) == IF IsAbsolute(b) THEN b ELSE a \o b

\* str.rfind(".") as a 1-based index, 0 when there is none
LastDot(name) ==
    LET dots == {i \in 1..Len(name) : name[i] = "."}
    IN  IF dots = {} THEN 0 ELSE CHOOSE i \in dots : \A j \in dots : j <= i

\* Path.suffix
Suffix(name) ==
    LET i == LastDot(name)
    IN  IF 1 < i /\ i < Len(name) THEN SubSeq(name, i, Len(name)) ELSE <<>>

\* Path.with_suffix("")
WithSuffixEmpty(p) ==
    LET name == PathName(p)
        stem == SubSeq(name, 1, Len(name) - Len(Suffix(name)))
    IN  SubSeq(p, 1, Len(p) - 1) \o <<stem>>

RECURSIVE JoinParts(_, _)
JoinParts(p, i) ==
    IF i > Len(p) THEN <<>>
    ELSE p[i] \o (IF i < Len(p) THEN <<"/">> ELSE <<>>) \o JoinParts(p, i + 1)

\* str(path)
StrOf(p) ==
    IF p = <<>> THEN <<".">>
    ELSE IF IsAbsolute(p) THEN <<"/">> \o JoinParts(p, 2)
    ELSE JoinParts(p, 1)

IsPrefix(a, b) == Len(a) <= Len(b) /\ SubSeq(b, 1, Len(a)) = a

Prefixes(p) == {SubSeq(p, 1, n) : n \in 1..Len(p)}

\* ---------------------------------------------------------------- planning
\* check_root_privileges: TRUE when the check passes
CheckRootPrivileges(env) == env.euid = 0

\* get_sudo_user: TRUE when SUDO_USER is set and non-empty
GetSudoUser(env) == env.sudo_user # <<>>

\* validate_rse_path: TRUE when the path is accepted
ValidateRsePath(rp) == ~(Len(rp) = 0) /\ ~(Len(rp) < 2)

\* parse_rse_path, for an accepted path
ParseRsePath(rp) ==
    [filename  |-> PathName(rp),
     filepath  |-> PathParent(rp),
     namespace |-> RelativeTo(rp, TopParent(rp))[1],
     bind_path |-> WithSuffixEmpty(rp)]

\* mutant: the group is never compared with the namespace
Mut_VerifyNamespaceMatchesGroup(namespace, sudo_group) == TRUE

\* verify_namespace_matches_group: TRUE when the check passes
VerifyNamespaceMatchesGroup(namespace, sudo_group) == ~(namespace # sudo_group)

HomeDir(sudo_user) == PathOf(<<"/">> \o S_home \o <<"/">> \o sudo_user)

\* prepare_mount_paths
PrepareMountPaths(sudo_user, filepath, bind_path, filename) ==
    [bind_target  |-> Join(Join(HomeDir(sudo_user), <<S_binds>>), bind_path),
     project_file |-> Join(Join(HomeDir(sudo_user), <<S_projects>>), <<filename>>)]

NoPlan == [filename |-> <<>>, filepath |-> <<>>, namespace |-> <<>>,
           bind_path |-> <<>>, bind_target |-> <<>>, project_file |-> <<>>]

PlanOf(r) ==
    LET rp == PathOf(r.rse_path)
        parsed == ParseRsePath(rp)
        paths == PrepareMountPaths(r.env.sudo_user, parsed.filepath,
                                   parsed.bind_path, parsed.filename)
    IN  [filename |-> parsed.filename, filepath |-> parsed.filepath,
         namespace |-> parsed.namespace, bind_path |-> parsed.bind_path,
         bind_target |-> paths.bind_target, project_file |-> paths.project_file]

\* ---------------------------------------------------------------- filesystem
RootId == [uid |-> 0, gid |-> 0]

\* modes given to new directories and files: 0o777 and 0o666 under umask 0o022
DefaultDirMode == 511 - 18
DefaultFileMode == 438 - 18

\* os.chmod(bind_target, 0o600), os.chmod(project_file, 0o600)
BindTargetMode == 384
ProjectFileMode == 384

InitFs ==
    LET dirs == {<<ROOT>>, <<ROOT, S_home>>, <<ROOT, S_home, S_alice>>}
    IN  [ex   |-> dirs,
         own  |-> [q \in dirs |-> IF q = <<ROOT, S_home, S_alice>>
                                  THEN Passwd[S_alice] ELSE RootId],
         mode |-> [q \in dirs |-> DefaultDirMode],
         mtab |-> << [on |-> <<ROOT>>, kind |-> "rootfs", src |-> <<>>] >>]

\* is_mountpoint: mountpoint -q path
IsMountpoint(f, path) == \E i \in 1..Len(f.mtab) : f.mtab[i].on = path

AddPaths(f, new, m) ==
    [f EXCEPT !.ex = f.ex \cup new,
              !.own = [q \in f.ex \cup new |-> IF q \in f.ex THEN f.own[q] ELSE RootId],
              !.mode = [q \in f.ex \cup new |-> IF q \in f.ex THEN f.mode[q] ELSE m]]

DelPaths(f, gone) ==
    [f EXCEPT !.ex = f.ex \ gone,
              !.own = [q \in f.ex \ gone |-> f.own[q]],
              !.mode = [q \in f.ex \ gone |-> f.mode[q]]]

FsCall(cmd, on, uid, gid, mode) ==
    [cmd |-> cmd, on |-> on, uid |-> uid, gid |-> gid, mode |-> mode]

\* the call raises OSError
Raises(f, c) ==
    CASE c.cmd = "mkdir"  -> FALSE
      [] c.cmd = "chown"  -> c.on \notin f.ex
      [] c.cmd = "chmod"  -> c.on \notin f.ex
      [] c.cmd = "touch"  -> PathParent(c.on) \notin f.ex
      [] c.cmd = "unlink" -> c.on \notin f.ex \/ IsMountpoint(f, c.on)

\* the effect of a call that does not raise
Effect(f, c) ==
    CASE c.cmd = "mkdir"  -> AddPaths(f, Prefixes(c.on), DefaultDirMode)
      [] c.cmd = "chown"  -> [f EXCEPT !.own[c.on] = [uid |-> c.uid, gid |-> c.gid]]
      [] c.cmd = "chmod"  -> [f EXCEPT !.mode[c.on] = c.mode]
      [] c.cmd = "touch"  -> AddPaths(f, {c.on}, DefaultFileMode)
      [] c.cmd = "unlink" -> DelPaths(f, {c.on})

LogEntry(cmd, on, rc) == [cmd |-> cmd, on |-> on, rc |-> rc]

\* run the calls in order up to the first one that raises
RECURSIVE RunCalls(_, _, _, _)
RunCalls(f, calls, i, lg) ==
    IF i > Len(calls) THEN [fs |-> f, log |-> lg, raised |-> FALSE]
    ELSE IF Raises(f, calls[i])
         THEN [fs |-> f, log |-> Append(lg, LogEntry(calls[i].cmd, calls[i].on, 1)),
               raised |-> TRUE]
         ELSE RunCalls(Effect(f, calls[i]), calls, i + 1,
                       Append(lg, LogEntry(calls[i].cmd, calls[i].on, 0)))

\* get_user_ids: TRUE when the user is known
UserKnown(username) == username \in DOMAIN Passwd

\* create_mount_directories
CreateMountDirectories(sudo_user, bind_target, project_file, uid, gid) ==
    << FsCall("mkdir", bind_target, 0, 0, 0),
       FsCall("chown", Join(HomeDir(sudo_user), <<S_binds>>), uid, gid, 0),
       FsCall("chmod", bind_target, 0, 0, BindTargetMode),
       FsCall("mkdir", PathParent(project_file), 0, 0, 0),
       FsCall("touch", project_file, 0, 0, 0),
       FsCall("chown", PathParent(project_file), uid, gid, 0),
       FsCall("chmod", project_file, 0, 0, ProjectFileMode) >>

\* source_path = f"/skadata/{filepath}"
SourcePath(filepath) == PathOf(S_skadata_prefix \o StrOf(filepath))

\* a mount command that succeeded
Mount(f, kind, src, on) ==
    [f EXCEPT !.mtab = Append(@, [on |-> on, kind |-> kind, src |-> src])]

\* umount path: removes the topmost mount on path; fails when nothing is
\* mounted there or when the mount is busy
Umount(f, path, busy) ==
    LET idx == {i \in 1..Len(f.mtab) : f.mtab[i].on = path}
        top == CHOOSE i \in idx : \A j \in idx : j <= i
    IN  IF idx = {} \/ busy THEN [fs |-> f, rc |-> 1]
        ELSE [fs |-> [f EXCEPT !.mtab = SubSeq(@, 1, top - 1) \o SubSeq(@, top + 1, Len(@))],
              rc |-> 0]

\* rm -rf path: a mount point, and so each directory above it, cannot be removed
RmRf(f, path) ==
    LET doomed == {q \in f.ex : IsPrefix(path, q)}
        kept == {q \in doomed : \E i \in 1..Len(f.mtab) : IsPrefix(q, f.mtab[i].on)}
    IN  [fs |-> DelPaths(f, doomed \ kept), rc |-> IF kept = {} THEN 0 ELSE 1]

Msg(level, about) == [level |-> level, about |-> about]

\* ---------------------------------------------------------------- requests
NoRequest == [op |-> "none", rse_path |-> <<>>, group |-> <<>>,
              env |-> [euid |-> 0, sudo_user |-> <<>>]]

NoTrack == [stage |-> 0, rse_path |-> <<>>, sudo_user |-> <<>>, group |-> <<>>]

\* the validation of mount_unmount, mount_file and unmount_file that precedes
\* the first filesystem access: the error it ends with, "none" when it passes
PlanError(r) ==
    LET rp == PathOf(r.rse_path)
    IN  IF ~CheckRootPrivileges(r.env) THEN "PrivilegeRequired"
        ELSE IF ~GetSudoUser(r.env) THEN "NoSudoUser"
        ELSE IF ~ValidateRsePath(rp) THEN "InvalidPath"
        ELSE IF r.op = "mount"
                /\ ~VerifyNamespaceMatchesGroup(ParseRsePath(rp).namespace, r.group)
             THEN "NamespaceMismatch"
        ELSE "none"

\* stage 1: the request before the current one was a successful mount of
\* (rse_path, group, sudo_user); stage 2: it was an unmount of the same path
\* by the same user, itself directly preceded by that successful mount
NextTrack(p) ==
    IF pc[p] = "done" /\ req[p].op = "mount" /\ outcome[p] = "ok"
    THEN [stage |-> 1, rse_path |-> req[p].rse_path,
          sudo_user |-> req[p].env.sudo_user, group |-> req[p].group]
    ELSE IF /\ pc[p] = "done" /\ req[p].op = "unmount" /\ track.stage = 1
            /\ req[p].rse_path = track.rse_path
            /\ req[p].env = [euid |-> 0, sudo_user |-> track.sudo_user]
         THEN [track EXCEPT !.stage = 2]
         ELSE NoTrack

ExitCode(o) == IF o = "ok" THEN 0 ELSE 1

\* path_finder.main not running
NoMain == [pc |-> "idle"]

\* authenticate not running, no cache file
NoAuth == [pc |-> "idle"]

\* extract_rse_path not running
NoResolve == [pc |-> "idle", namespace |-> <<>>, replica_uris |-> <<>>, i |-> 0,
              matched_paths |-> {}, unmatched_paths |-> <<>>, warned |-> FALSE,
              result |-> [kind |-> "none", value |-> <<>>]]

Init ==
    /\ fs = InitFs
    /\ procs = {1}
    /\ pc = [p \in Procs |-> "idle"]
    /\ req = [p \in Procs |-> NoRequest]
    /\ plan = [p \in Procs |-> NoPlan]
    /\ outcome = [p \in Procs |-> "none"]
    /\ log = [p \in Procs |-> <<>>]
    /\ msgs = [p \in Procs |-> <<>>]
    /\ pre = [p \in Procs |-> InitFs]
    /\ track = NoTrack
    /\ nreq = 0
    /\ rs = NoResolve
    /\ mn = NoMain
    /\ au = NoAuth

\* mount_unmount up to the first filesystem access
Start(p, op, raw, group, env) ==
    /\ p \in procs
    /\ pc[p] \in {"idle", "done"}
    /\ nreq < MaxRequests
    /\ LET r == [op |-> op, rse_path |-> raw, group |-> group, env |-> env]
           err == PlanError(r)
       IN  /\ req' = [req EXCEPT ![p] = r]
           /\ plan' = [plan EXCEPT ![p] = IF err = "none" THEN PlanOf(r) ELSE NoPlan]
           /\ outcome' = [outcome EXCEPT ![p] = err]
           /\ pc' = [pc EXCEPT ![p] = IF err # "none" THEN "done"
                                      ELSE IF op = "mount" THEN "cycle"
                                      ELSE "umount_pf"]
           /\ msgs' = [msgs EXCEPT ![p] = IF err # "none" THEN <<Msg("Error", err)>>
                                          ELSE <<>>]
    /\ log' = [log EXCEPT ![p] = <<>>]
    /\ pre' = [pre EXCEPT ![p] = fs]
    /\ track' = NextTrack(p)
    /\ nreq' = nreq + 1
    /\ UNCHANGED <<fs, procs, rs, mn, au>>

\* mutant: a mounted parent does not stop the request
Mut_CheckNoCyclicalMount(f, binds_path) == TRUE

\* mutant: a mount on the parent or anywhere below it stops the request
Mut_CheckNothingMountedBelow(f, binds_path) ==
    ~\E i \in 1..Len(f.mtab) : IsPrefix(binds_path, f.mtab[i].on)

\* check_no_cyclical_mount(bind_target.parent): TRUE when the request goes on
CheckNoCyclicalMount(f, binds_path) == ~IsMountpoint(f, binds_path)

CycleCheck(p) ==
    /\ pc[p] = "cycle"
    /\ LET binds_path == PathParent(plan[p].bind_target)
           pass == CheckNoCyclicalMount(fs, binds_path)
       IN  /\ log' = [log EXCEPT ![p] = Append(@, LogEntry("mountpoint", binds_path,
                                                  IF IsMountpoint(fs, binds_path) THEN 0 ELSE 1))]
           /\ pc' = [pc EXCEPT ![p] = IF pass THEN "dirs" ELSE "done"]
           /\ outcome' = [outcome EXCEPT ![p] = IF pass THEN "none" ELSE "CyclicMount"]
           /\ msgs' = [msgs EXCEPT ![p] = IF pass THEN @
                                          ELSE Append(@, Msg("Error", "CyclicMount"))]
    /\ pre' = [pre EXCEPT ![p] = fs]
    /\ UNCHANGED <<fs, procs, req, plan, track, nreq, rs, mn, au>>

\* mutant: remapTarget is created before the identity is looked up
Mut_PrepareDirectories(p) ==
    /\ pc[p] = "dirs"
    /\ LET user == req[p].env.sudo_user
           made == RunCalls(fs, <<FsCall("mkdir", plan[p].bind_target, 0, 0, 0)>>, 1, log[p])
       IN  IF ~UserKnown(user)
           THEN /\ pc' = [pc EXCEPT ![p] = "done"]
                /\ outcome' = [outcome EXCEPT ![p] = "UnknownIdentity"]
                /\ msgs' = [msgs EXCEPT ![p] = Append(@, Msg("Error", "UnknownIdentity"))]
                /\ fs' = made.fs
                /\ log' = [log EXCEPT ![p] = made.log]
           ELSE LET ids == Passwd[user]
                    run == RunCalls(fs, CreateMountDirectories(user, plan[p].bind_target,
                                            plan[p].project_file, ids.uid, ids.gid),
                                    1, log[p])
                IN  /\ fs' = run.fs
                    /\ log' = [log EXCEPT ![p] = run.log]
                    /\ pc' = [pc EXCEPT ![p] = IF run.raised THEN "done" ELSE "bindfs"]
                    /\ outcome' = [outcome EXCEPT ![p] = IF run.raised THEN "Exception"
                                                        ELSE "none"]
                    /\ msgs' = [msgs EXCEPT ![p] =
                                  IF run.raised
                                  THEN Append(@, Msg("Traceback", run.log[Len(run.log)].cmd))
                                  ELSE @]
    /\ UNCHANGED <<procs, req, plan, pre, track, nreq, rs, mn, au>>

\* get_user_ids, create_mount_directories
PrepareDirectories(p) ==
    /\ pc[p] = "dirs"
    /\ LET user == req[p].env.sudo_user
       IN  IF ~UserKnown(user)
           THEN /\ pc' = [pc EXCEPT ![p] = "done"]
                /\ outcome' = [outcome EXCEPT ![p] = "UnknownIdentity"]
                /\ msgs' = [msgs EXCEPT ![p] = Append(@, Msg("Error", "UnknownIdentity"))]
                /\ UNCHANGED <<fs, log>>
           ELSE LET ids == Passwd[user]
                    run == RunCalls(fs, CreateMountDirectories(user, plan[p].bind_target,
                                            plan[p].project_file, ids.uid, ids.gid),
                                    1, log[p])
                IN  /\ fs' = run.fs
                    /\ log' = [log EXCEPT ![p] = run.log]
                    /\ pc' = [pc EXCEPT ![p] = IF run.raised THEN "done" ELSE "bindfs"]
                    /\ outcome' = [outcome EXCEPT ![p] = IF run.raised THEN "Exception"
                                                        ELSE "none"]
                    /\ msgs' = [msgs EXCEPT ![p] =
                                  IF run.raised
                                  THEN Append(@, Msg("Traceback", run.log[Len(run.log)].cmd))
                                  ELSE @]
    /\ UNCHANGED <<procs, req, plan, pre, track, nreq, rs, mn, au>>

\* mutant: a failed bindfs is reported and the request goes on to stage 2
Mut_PerformBindfsMount(p, ok) ==
    /\ pc[p] = "bindfs"
    /\ LET on == plan[p].bind_target
       IN  /\ fs' = IF ok THEN Mount(fs, "bindfs", SourcePath(plan[p].filepath), on) ELSE fs
           /\ log' = [log EXCEPT ![p] = Append(@, LogEntry("bindfs", on, IF ok THEN 0 ELSE 1))]
    /\ pc' = [pc EXCEPT ![p] = "bind"]
    /\ msgs' = [msgs EXCEPT ![p] = IF ok THEN @ ELSE Append(@, Msg("Error", "bindfs"))]
    /\ UNCHANGED <<procs, req, plan, outcome, pre, track, nreq, rs, mn, au>>

\* perform_bindfs_mount; ok: whether the bindfs command returns 0
PerformBindfsMount(p, ok) ==
    /\ pc[p] = "bindfs"
    /\ LET on == plan[p].bind_target
       IN  /\ fs' = IF ok THEN Mount(fs, "bindfs", SourcePath(plan[p].filepath), on) ELSE fs
           /\ log' = [log EXCEPT ![p] = Append(@, LogEntry("bindfs", on, IF ok THEN 0 ELSE 1))]
    /\ pc' = [pc EXCEPT ![p] = IF ok THEN "bind" ELSE "done"]
    /\ outcome' = [outcome EXCEPT ![p] = IF ok THEN "none" ELSE "BindfsFailed"]
    /\ msgs' = [msgs EXCEPT ![p] = IF ok THEN @ ELSE Append(@, Msg("Error", "bindfs"))]
    /\ UNCHANGED <<procs, req, plan, pre, track, nreq, rs, mn, au>>

\* mutant: a failed mount --bind is not followed by the umount
Mut_BindMountCleanup(f, bind_target, busy) == [fs |-> f, log |-> <<>>]

\* the cleanup of perform_bind_mount after a failed mount --bind:
\* subprocess.run(["umount", bind_target]), its return code not looked at
BindMountCleanup(f, bind_target, busy) ==
    LET u == Umount(f, bind_target, busy)
    IN  [fs |-> u.fs, log |-> <<LogEntry("umount", bind_target, u.rc)>>]

\* perform_bind_mount; res: what mount --bind does ("ok": mounts and returns 0,
\* "fail": returns non-zero, "silent": returns 0 without having mounted);
\* busy: whether the stage-1 mount is busy when the cleanup unmounts it
PerformBindMount(p, res, busy) ==
    /\ pc[p] = "bind"
    /\ LET bt == plan[p].bind_target
           pf == plan[p].project_file
           src == Join(bt, <<plan[p].filename>>)
           undo == BindMountCleanup(fs, bt, busy)
       IN  IF res = "fail"
           THEN /\ fs' = undo.fs
                /\ log' = [log EXCEPT ![p] = Append(@, LogEntry("mount", pf, 1)) \o undo.log]
                /\ msgs' = [msgs EXCEPT ![p] = Append(@, Msg("Error", "mount"))]
                /\ pc' = [pc EXCEPT ![p] = "done"]
                /\ outcome' = [outcome EXCEPT ![p] = "MountFailed"]
           ELSE /\ fs' = IF res = "ok" THEN Mount(fs, "bind", src, pf) ELSE fs
                /\ log' = [log EXCEPT ![p] = Append(@, LogEntry("mount", pf, 0))]
                /\ pc' = [pc EXCEPT ![p] = "verify"]
                /\ UNCHANGED <<msgs, outcome>>
    /\ UNCHANGED <<procs, req, plan, pre, track, nreq, rs, mn, au>>

\* mutant: the answer of the mount-point query is not looked at
Mut_VerifyMountSuccess(f, project_file) == TRUE

\* verify_mount_success: TRUE when the verification passes
VerifyMountSuccess(f, project_file) == IsMountpoint(f, project_file)

Verify(p) ==
    /\ pc[p] = "verify"
    /\ LET pf == plan[p].project_file
           pass == VerifyMountSuccess(fs, pf)
       IN  /\ log' = [log EXCEPT ![p] = Append(@, LogEntry("mountpoint", pf,
                                                  IF IsMountpoint(fs, pf) THEN 0 ELSE 1))]
           /\ outcome' = [outcome EXCEPT ![p] = IF pass THEN "ok" ELSE "VerificationFailed"]
           /\ msgs' = [msgs EXCEPT ![p] = Append(@, IF pass THEN Msg("Info", "verified")
                                                    ELSE Msg("Error", "VerificationFailed"))]
    /\ pc' = [pc EXCEPT ![p] = "done"]
    /\ UNCHANGED <<fs, procs, req, plan, pre, track, nreq, rs, mn, au>>

\* mutant: the first umount of the teardown is the one of remapTarget
Mut_UnmountProjectFile(p, busy) ==
    /\ pc[p] = "umount_pf"
    /\ LET bt == plan[p].bind_target
           u == Umount(fs, bt, busy)
       IN  /\ fs' = u.fs
           /\ log' = [log EXCEPT ![p] = Append(@, LogEntry("umount", bt, u.rc))]
           /\ msgs' = [msgs EXCEPT ![p] = IF u.rc # 0
                                          THEN Append(@, Msg("Warning", "umount bind_target"))
                                          ELSE @]
    /\ pc' = [pc EXCEPT ![p] = "umount_bt"]
    /\ UNCHANGED <<procs, req, plan, outcome, pre, track, nreq, rs, mn, au>>

\* unmount_project_file
UnmountProjectFile(p, busy) ==
    /\ pc[p] = "umount_pf"
    /\ LET pf == plan[p].project_file
           u == Umount(fs, pf, busy)
       IN  /\ fs' = u.fs
           /\ log' = [log EXCEPT ![p] = Append(@, LogEntry("umount", pf, u.rc))]
           /\ msgs' = [msgs EXCEPT ![p] = IF u.rc # 0
                                          THEN Append(@, Msg("Warning", "umount project_file"))
                                          ELSE @]
    /\ pc' = [pc EXCEPT ![p] = "umount_bt"]
    /\ UNCHANGED <<procs, req, plan, outcome, pre, track, nreq, rs, mn, au>>

\* unmount_bind_target
UnmountBindTarget(p, busy) ==
    /\ pc[p] = "umount_bt"
    /\ LET bt == plan[p].bind_target
           u == Umount(fs, bt, busy)
       IN  /\ fs' = u.fs
           /\ log' = [log EXCEPT ![p] = Append(@, LogEntry("umount", bt, u.rc))]
           /\ msgs' = [msgs EXCEPT ![p] = IF u.rc # 0
                                          THEN Append(@, Msg("Warning", "umount bind_target"))
                                          ELSE @]
    /\ pc' = [pc EXCEPT ![p] = "cleanup"]
    /\ UNCHANGED <<procs, req, plan, outcome, pre, track, nreq, rs, mn, au>>

\* cleanup_mount_artifacts: the result of rm -rf is not looked at, unlink may raise
CleanupMountArtifacts(f, bind_target, project_file) ==
    LET rm == IF bind_target \in f.ex
              THEN LET r == RmRf(f, bind_target)
                   IN  [fs |-> r.fs, log |-> <<LogEntry("rm", bind_target, r.rc)>>]
              ELSE [fs |-> f, log |-> <<>>]
    IN  IF project_file \in rm.fs.ex
        THEN RunCalls(rm.fs, <<FsCall("unlink", project_file, 0, 0, 0)>>, 1, rm.log)
        ELSE [fs |-> rm.fs, log |-> rm.log, raised |-> FALSE]

\* the rest of unmount_file
Cleanup(p) ==
    /\ pc[p] = "cleanup"
    /\ LET c == CleanupMountArtifacts(fs, plan[p].bind_target, plan[p].project_file)
       IN  /\ fs' = c.fs
           /\ log' = [log EXCEPT ![p] = @ \o c.log]
           /\ outcome' = [outcome EXCEPT ![p] = IF c.raised THEN "Exception" ELSE "ok"]
           /\ msgs' = [msgs EXCEPT ![p] = Append(@, IF c.raised THEN Msg("Traceback", "unlink")
                                                    ELSE Msg("Info", "unmounted"))]
    /\ pc' = [pc EXCEPT ![p] = "done"]
    /\ UNCHANGED <<procs, req, plan, pre, track, nreq, rs, mn, au>>

Next ==
    \/ \E p \in Procs, op \in Ops, raw \in RsePaths, group \in Groups, env \in Envs :
          Start(p, op, raw, group, env)
    \/ \E p \in Procs : CycleCheck(p)
    \/ \E p \in Procs : PrepareDirectories(p)
    \/ \E p \in Procs, ok \in BOOLEAN : PerformBindfsMount(p, ok)
    \/ \E p \in Procs, res \in {"ok", "fail", "silent"}, busy \in BOOLEAN :
          PerformBindMount(p, res, busy)
    \/ \E p \in Procs : Verify(p)
    \/ \E p \in Procs, busy \in BOOLEAN : UnmountProjectFile(p, busy)
    \/ \E p \in Procs, busy \in BOOLEAN : UnmountBindTarget(p, busy)
    \/ \E p \in Procs : Cleanup(p)

Spec == Init /\ [][Next]_vars


\* ---------------------------------------------------------------- one user
\* requests of one user and group, one after the other, for two paths with
\* the same leaf file name

SameLeafPaths == {R_rel, R_sibling}

NextSameLeaf ==
    \/ \E p \in Procs, op \in Ops, raw \in SameLeafPaths :
          Start(p, op, raw, S_daac, [euid |-> 0, sudo_user |-> S_alice])
    \/ \E p \in Procs : CycleCheck(p)
    \/ \E p \in Procs : PrepareDirectories(p)
    \/ \E p \in Procs, ok \in BOOLEAN : PerformBindfsMount(p, ok)
    \/ \E p \in Procs, res \in {"ok", "fail", "silent"}, busy \in BOOLEAN :
          PerformBindMount(p, res, busy)
    \/ \E p \in Procs : Verify(p)
    \/ \E p \in Procs, busy \in BOOLEAN : UnmountProjectFile(p, busy)
    \/ \E p \in Procs, busy \in BOOLEAN : UnmountBindTarget(p, busy)
    \/ \E p \in Procs : Cleanup(p)

SpecSameLeaf == Init /\ [][NextSameLeaf]_vars

\* ---------------------------------------------------------------- concurrency
\* two invocations of mount_data.py --mount by the same user running at once

MaxInvocations == 2

ConcurrentPaths == {R_rel, R_nested}

InitConcurrent ==
    /\ fs = InitFs
    /\ procs = Procs
    /\ pc = [p \in Procs |-> "idle"]
    /\ req = [p \in Procs |-> NoRequest]
    /\ plan = [p \in Procs |-> NoPlan]
    /\ outcome = [p \in Procs |-> "none"]
    /\ log = [p \in Procs |-> <<>>]
    /\ msgs = [p \in Procs |-> <<>>]
    /\ pre = [p \in Procs |-> InitFs]
    /\ track = NoTrack
    /\ nreq = 0
    /\ rs = NoResolve
    /\ mn = NoMain
    /\ au = NoAuth

\* an invocation of --mount starts
StartMount(p, raw) ==
    /\ nreq < MaxInvocations
    /\ Start(p, "mount", raw, S_daac, [euid |-> 0, sudo_user |-> S_alice])

NextConcurrent ==
    \/ \E p \in Procs, raw \in ConcurrentPaths : StartMount(p, raw)
    \/ \E p \in Procs : CycleCheck(p)
    \/ \E p \in Procs : PrepareDirectories(p)
    \/ \E p \in Procs, ok \in BOOLEAN : PerformBindfsMount(p, ok)
    \/ \E p \in Procs, res \in {"ok", "fail", "silent"}, busy \in BOOLEAN :
          PerformBindMount(p, res, busy)
    \/ \E p \in Procs : Verify(p)

SpecConcurrent == InitConcurrent /\ [][NextConcurrent]_vars

\* ---------------------------------------------------------------- legacy script
\* src/bash_scripts/pathFinder.py: the same command line, one run of main() per
\* step

MaxRuns == 2
MaxAuthRuns == 2
MaxWaits == 1

\* the command-line paths and environments tried with the script
LegacyPaths == {R_empty, R_rel, R_nested}
LegacyEnvs == {[euid |-> 0, sudo_user |-> S_alice],
               [euid |-> 0, sudo_user |-> <<>>],
               [euid |-> 1000, sudo_user |-> S_alice]}

\* the non-zero return codes tried for bindfs and mount: 1, and 32 (the
\* "mount failure" status of mount(8))
FailureCodes == {1, 32}

LastSlash(s) ==
    LET sl == {i \in 1..Len(s) : s[i] = "/"}
    IN  IF sl = {} THEN 0 ELSE CHOOSE i \in sl : \A j \in sl : j <= i

\* os.path.basename
Basename(s) == SubSeq(s, LastSlash(s) + 1, Len(s))

RECURSIVE RStripSlashes(_)
RStripSlashes(s) ==
    IF s # <<>> /\ s[Len(s)] = "/" THEN RStripSlashes(SubSeq(s, 1, Len(s) - 1)) ELSE s

\* os.path.dirname
Dirname(s) ==
    LET head == SubSeq(s, 1, LastSlash(s))
    IN  IF RStripSlashes(head) = <<>> THEN head ELSE RStripSlashes(head)

\* os.path.splitext(name)[0], name without a slash
SplitextRoot(name) ==
    LET i == LastDot(name)
    IN  IF i > 1 /\ (\E k \in 1..(i - 1) : name[k] # ".")
        THEN SubSeq(name, 1, i - 1) ELSE name

\* os.path.join(a, b)
OsPathJoin(a, b) ==
    IF b # <<>> /\ b[1] = "/" THEN b
    ELSE IF a = <<>> \/ a[Len(a)] = "/" THEN a \o b
    ELSE a \o <<"/">> \o b

\* lines 37-46: the paths main() derives
LegacyPlan(fits, sudo_group, sudo_user) ==
    LET fits_file == Basename(fits)
        fits_path == Dirname(fits)
        bind_name == SplitextRoot(fits_file)
        home == <<"/">> \o S_home \o <<"/">> \o sudo_user
        bind_dir == OsPathJoin(OsPathJoin(home, S_binds), bind_name)
        projects_dir == OsPathJoin(home, S_projects)
    IN  [filename |-> fits_file, filepath |-> PathOf(fits_path),
         namespace |-> sudo_group, bind_path |-> <<bind_name>>,
         bind_target |-> PathOf(bind_dir),
         project_file |-> PathOf(OsPathJoin(projects_dir, fits_file))]

\* the state of a run of main(): the filesystem, the commands issued, the
\* messages printed and how the run ended ("none": still running)
Running(f) == [fs |-> f, log |-> <<>>, msgs |-> <<>>, outcome |-> "none"]

\* run(cmd) with check=True, returning rc: a non-zero rc prints the error
\* and exits with rc
LegacyRun(st, f, cmd, on, rc) ==
    [fs |-> IF rc = 0 THEN f ELSE st.fs,
     log |-> Append(st.log, LogEntry(cmd, on, rc)),
     msgs |-> IF rc = 0 THEN st.msgs ELSE Append(st.msgs, Msg("Error", cmd)),
     outcome |-> IF rc = 0 THEN "none" ELSE "CommandFailed"]

\* lines 49-52
LegacyCycleCheck(st, bind_dir) ==
    IF st.outcome # "none" THEN st
    ELSE [st EXCEPT !.log = Append(@, LogEntry("mountpoint", bind_dir,
                                      IF IsMountpoint(st.fs, bind_dir) THEN 0 ELSE 1)),
                    !.msgs = IF IsMountpoint(st.fs, bind_dir)
                             THEN Append(@, Msg("Error", "CyclicMount")) ELSE @,
                    !.outcome = IF IsMountpoint(st.fs, bind_dir)
                                THEN "CyclicMount" ELSE "none"]

\* lines 54-58: os.makedirs twice, then the project file is touched
LegacyMakeDirs(st, bind_dir, projects_file) ==
    IF st.outcome # "none" THEN st
    ELSE LET run == RunCalls(st.fs, << FsCall("mkdir", bind_dir, 0, 0, 0),
                                       FsCall("mkdir", PathParent(projects_file), 0, 0, 0),
                                       FsCall("touch", projects_file, 0, 0, 0) >>,
                             1, st.log)
         IN  [st EXCEPT !.fs = run.fs, !.log = run.log]

\* run(['chown', '-R', 'user:user', path])
LegacyChownR(st, path, sudo_user) ==
    IF st.outcome # "none" THEN st
    ELSE IF ~UserKnown(sudo_user) \/ path \notin st.fs.ex
         THEN LegacyRun(st, st.fs, "chown", path, 1)
         ELSE LegacyRun(st,
                        [st.fs EXCEPT !.own = [q \in st.fs.ex |->
                                                 IF IsPrefix(path, q) THEN Passwd[sudo_user]
                                                 ELSE st.fs.own[q]]],
                        "chown", path, 0)

\* run(['chmod', mode, path])
LegacyChmod(st, path, mode) ==
    IF st.outcome # "none" THEN st
    ELSE IF path \notin st.fs.ex THEN LegacyRun(st, st.fs, "chmod", path, 1)
         ELSE LegacyRun(st, [st.fs EXCEPT !.mode[path] = mode], "chmod", path, 0)

\* line 67
LegacyBindfs(st, src, bind_dir, rc) ==
    IF st.outcome # "none" THEN st
    ELSE LegacyRun(st, Mount(st.fs, "bindfs", src, bind_dir), "bindfs", bind_dir, rc)

\* line 68; mounted: whether a command that returned 0 did mount
LegacyBindMount(st, src, projects_file, rc, mounted) ==
    IF st.outcome # "none" THEN st
    ELSE LegacyRun(st, IF mounted THEN Mount(st.fs, "bind", src, projects_file) ELSE st.fs,
                   "mount", projects_file, rc)

\* lines 70-75
LegacyVerify(st, projects_file) ==
    IF st.outcome # "none" THEN st
    ELSE LET mounted == IsMountpoint(st.fs, projects_file)
         IN  [st EXCEPT !.log = Append(@, LogEntry("mountpoint", projects_file,
                                           IF mounted THEN 0 ELSE 1)),
                        !.msgs = Append(@, IF mounted THEN Msg("Info", "verified")
                                           ELSE Msg("Error", "VerificationFailed")),
                        !.outcome = IF mounted THEN "ok" ELSE "VerificationFailed"]

\* run(['umount', path], check=False): nothing is printed, the run goes on
LegacyUmount(st, path, busy) ==
    LET u == Umount(st.fs, path, busy)
    IN  [st EXCEPT !.fs = u.fs, !.log = Append(@, LogEntry("umount", path, u.rc))]

\* run(['rm', '-rf', bind_dir])
LegacyRmRf(st, bind_dir) ==
    IF st.outcome # "none" THEN st
    ELSE LET r == RmRf(st.fs, bind_dir)
         IN  LegacyRun(st, r.fs, "rm", bind_dir, r.rc)

\* run(['rm', '-f', projects_file]), then the closing message
LegacyRmF(st, projects_file) ==
    IF st.outcome # "none" THEN st
    ELSE IF projects_file \in st.fs.ex /\ IsMountpoint(st.fs, projects_file)
         THEN LegacyRun(st, st.fs, "rm", projects_file, 1)
         ELSE LET done == LegacyRun(st, DelPaths(st.fs, {projects_file} \cap st.fs.ex),
                                    "rm", projects_file, 0)
              IN  [done EXCEPT !.msgs = Append(@, Msg("Info", "unmounted")),
                               !.outcome = "ok"]

\* 0o600 and 0o500: the modes of lines 62 and 64
LegacyBindDirMode == 384
LegacyProjectsFileMode == 320

\* what the operating system does during one run: the return codes of bindfs
\* and mount --bind, whether a mount --bind that returned 0 did mount, whether
\* the two umount targets are busy; an unprivileged run cannot mount or
\* unmount
LegacyChoices(op, env) ==
    IF op = "mount"
    THEN {c \in [bindfs_rc : {0} \cup FailureCodes, mount_rc : {0} \cup FailureCodes,
                 mounted : BOOLEAN, busy_pf : {FALSE}, busy_bt : {FALSE}] :
             /\ c.bindfs_rc # 0 => (c.mount_rc = 0 /\ c.mounted)
             /\ c.mount_rc # 0 => ~c.mounted
             /\ env.euid # 0 => c.mount_rc # 0 \/ c.bindfs_rc # 0}
    ELSE {c \in [bindfs_rc : {0}, mount_rc : {0}, mounted : {TRUE},
                 busy_pf : BOOLEAN, busy_bt : BOOLEAN] :
             env.euid # 0 => (c.busy_pf /\ c.busy_bt)}

\* lines 48-75
LegacyMount(f, pl, sudo_user, c) ==
    LET s1 == LegacyCycleCheck(Running(f), pl.bind_target)
        s2 == LegacyMakeDirs(s1, pl.bind_target, pl.project_file)
        s3 == LegacyChownR(s2, PathOf(OsPathJoin(<<"/">> \o S_home \o <<"/">> \o sudo_user,
                                                 S_binds)), sudo_user)
        s4 == LegacyChmod(s3, pl.bind_target, LegacyBindDirMode)
        s5 == LegacyChownR(s4, PathParent(pl.project_file), sudo_user)
        s6 == LegacyChmod(s5, pl.project_file, LegacyProjectsFileMode)
        s7 == LegacyBindfs(s6, PathOf(OsPathJoin(OsPathJoin(S_skadata_prefix, pl.namespace),
                                                 StrOf(pl.filepath))),
                           pl.bind_target, c.bindfs_rc)
        s8 == LegacyBindMount(s7, Join(pl.bind_target, <<pl.filename>>), pl.project_file,
                              c.mount_rc, c.mounted)
    IN  LegacyVerify(s8, pl.project_file)

\* lines 77-82
LegacyUnmount(f, pl, c) ==
    LET s1 == LegacyUmount(Running(f), pl.project_file, c.busy_pf)
        s2 == LegacyUmount(s1, pl.bind_target, c.busy_bt)
        s3 == LegacyRmRf(s2, pl.bind_target)
    IN  LegacyRmF(s3, pl.project_file)

\* main(): one run of the script
LegacyMain(p, op, fits, sudo_group, env, c) ==
    /\ p \in procs
    /\ nreq < MaxRuns
    /\ LET r == [op |-> op, rse_path |-> fits, group |-> sudo_group, env |-> env]
           err == IF fits = <<>> \/ sudo_group = <<>> THEN "MissingArgument"
                  ELSE IF env.sudo_user = <<>> THEN "NoSudoUser"
                  ELSE "none"
           pl == LegacyPlan(fits, sudo_group, env.sudo_user)
           end == IF op = "mount" THEN LegacyMount(fs, pl, env.sudo_user, c)
                  ELSE LegacyUnmount(fs, pl, c)
       IN  /\ req' = [req EXCEPT ![p] = r]
           /\ plan' = [plan EXCEPT ![p] = IF err = "none" THEN pl ELSE NoPlan]
           /\ outcome' = [outcome EXCEPT ![p] = IF err = "none" THEN end.outcome ELSE err]
           /\ fs' = IF err = "none" THEN end.fs ELSE fs
           /\ log' = [log EXCEPT ![p] = IF err = "none" THEN end.log ELSE <<>>]
           /\ msgs' = [msgs EXCEPT ![p] = IF err = "none" THEN end.msgs
                                          ELSE <<Msg("Error", err)>>]
    /\ pc' = [pc EXCEPT ![p] = "done"]
    /\ pre' = [pre EXCEPT ![p] = fs]
    /\ nreq' = nreq + 1
    /\ UNCHANGED <<procs, track, rs, mn, au>>

NextLegacy ==
    \E p \in Procs, op \in Ops, fits \in LegacyPaths, sudo_group \in {S_daac},
       env \in LegacyEnvs :
          \E c \in LegacyChoices(op, env) : LegacyMain(p, op, fits, sudo_group, env, c)

SpecLegacy == Init /\ [][NextLegacy]_vars

\* the exit status of a finished run: the return code of the failed command
\* when run() ended it, else 0 or 1
ExitStatus(p) ==
    IF outcome[p] = "CommandFailed" THEN log[p][Len(log[p])].rc
    ELSE ExitCode(outcome[p])

\* ---------------------------------------------------------------- resolver
\* src/path_finder/path_finder.py, extract_rse_path

MaxLocations == 2

S_dotted == <<"d", ".", "a", "c">>
S_scheme == <<"r", "s", "e", ":", "/", "/">>

\* the replica URIs tried: "rse://A/daac/a/f", "rse://B/daac/a/f",
\* "rse://B/daac/b/f", "rse://C/oth/a/f", "rse://A/d.ac/a/f"
U_a1 == S_scheme \o <<"A", "/">> \o S_daac \o <<"/", "a", "/", "f">>
U_a2 == S_scheme \o <<"B", "/">> \o S_daac \o <<"/", "a", "/", "f">>
U_b == S_scheme \o <<"B", "/">> \o S_daac \o <<"/", "b", "/", "f">>
U_o == S_scheme \o <<"C", "/">> \o S_other \o <<"/", "a", "/", "f">>
U_d == S_scheme \o <<"A", "/">> \o S_dotted \o <<"/", "a", "/", "f">>

Uris == {U_a1, U_a2, U_b, U_o, U_d}
Namespaces == {S_daac, S_dotted}

\* DataLocation.replicas: no replica, one replica, two replicas
ReplicaLists == {<<>>} \cup {<<u>> : u \in Uris} \cup {<<u, v>> : u, v \in Uris}

DataLocationLists ==
    UNION {[1..n -> ReplicaLists] : n \in 0..MaxLocations}

\* itertools.chain.from_iterable([location.replicas for location in data_locations])
RECURSIVE Chain(_, _)
Chain(data_locations, k) ==
    IF k > Len(data_locations) THEN <<>>
    ELSE data_locations[k] \o Chain(data_locations, k + 1)

\* the part of rf"/{namespace}/.*$" before ".*$"
RsePathMatch(namespace) == <<"/">> \o namespace \o <<"/">>

\* the regular expression pat (literal characters and "."), matched at index i
\* of s
MatchesAt(pat, s, i) ==
    /\ i + Len(pat) - 1 <= Len(s)
    /\ \A k \in 1..Len(pat) : pat[k] = "." \/ pat[k] = s[i + k - 1]

\* rse_path_match.search(uri): the index of the leftmost match, 0 for None
Search(pat, uri) ==
    LET hits == {i \in 1..Len(uri) : MatchesAt(pat, uri, i)}
    IN  IF hits = {} THEN 0 ELSE CHOOSE i \in hits : \A j \in hits : i <= j

\* match.group(0): ".*$" takes the rest of the string
Group0(uri, i) == SubSeq(uri, i, Len(uri))

StartResolve(namespace, data_locations) ==
    [pc |-> "scan", namespace |-> namespace,
     replica_uris |-> Chain(data_locations, 1), i |-> 1,
     matched_paths |-> {}, unmatched_paths |-> <<>>, warned |-> FALSE,
     result |-> [kind |-> "none", value |-> <<>>]]

InitResolve ==
    /\ fs = InitFs
    /\ procs = {}
    /\ pc = [p \in Procs |-> "idle"]
    /\ req = [p \in Procs |-> NoRequest]
    /\ plan = [p \in Procs |-> NoPlan]
    /\ outcome = [p \in Procs |-> "none"]
    /\ log = [p \in Procs |-> <<>>]
    /\ msgs = [p \in Procs |-> <<>>]
    /\ pre = [p \in Procs |-> InitFs]
    /\ track = NoTrack
    /\ nreq = 0
    /\ \E namespace \in Namespaces, data_locations \in DataLocationLists :
           rs = StartResolve(namespace, data_locations)
    /\ mn = NoMain
    /\ au = NoAuth

\* mutant: a match replaces the matches found before it
Mut_ScanReplica ==
    /\ rs.pc = "scan"
    /\ rs.i <= Len(rs.replica_uris)
    /\ LET uri == rs.replica_uris[rs.i]
           match == Search(RsePathMatch(rs.namespace), uri)
       IN  rs' = IF match # 0
                 THEN [rs EXCEPT !.matched_paths = {Group0(uri, match)},
                                 !.i = @ + 1]
                 ELSE [rs EXCEPT !.unmatched_paths = Append(@, uri),
                                 !.i = @ + 1]
    /\ UNCHANGED <<fs, procs, pc, req, plan, outcome, log, msgs, pre, track, nreq, mn, au>>

\* one iteration of "for uri in replica_uris"
ScanReplica ==
    /\ rs.pc = "scan"
    /\ rs.i <= Len(rs.replica_uris)
    /\ LET uri == rs.replica_uris[rs.i]
           match == Search(RsePathMatch(rs.namespace), uri)
       IN  rs' = IF match # 0
                 THEN [rs EXCEPT !.matched_paths = @ \cup {Group0(uri, match)},
                                 !.i = @ + 1]
                 ELSE [rs EXCEPT !.unmatched_paths = Append(@, uri),
                                 !.i = @ + 1]
    /\ UNCHANGED <<fs, procs, pc, req, plan, outcome, log, msgs, pre, track, nreq, mn, au>>

\* mutant: with several candidates one of them is returned
Mut_ValidateMatched(matched_paths) ==
    IF matched_paths = {} THEN [kind |-> "RuntimeError", value |-> <<>>]
    ELSE [kind |-> "return", value |-> CHOOSE m \in matched_paths : TRUE]

\* "Validate we have exactly one unique path"
ValidateMatched(matched_paths) ==
    IF matched_paths = {} THEN [kind |-> "RuntimeError", value |-> <<>>]
    ELSE IF Cardinality(matched_paths) > 1
         THEN [kind |-> "NotImplementedError", value |-> <<>>]
         ELSE [kind |-> "return", value |-> CHOOSE m \in matched_paths : TRUE]

\* the statements after the loop
FinishResolve ==
    /\ rs.pc = "scan"
    /\ rs.i > Len(rs.replica_uris)
    /\ rs' = [rs EXCEPT !.pc = "done",
                        !.warned = rs.unmatched_paths # <<>>,
                        !.result = ValidateMatched(rs.matched_paths)]
    /\ UNCHANGED <<fs, procs, pc, req, plan, outcome, log, msgs, pre, track, nreq, mn, au>>

NextResolve == ScanReplica \/ FinishResolve

SpecResolve == InitResolve /\ [][NextResolve]_vars

\* ---------------------------------------------------------------- path_finder.main
\* src/path_finder/path_finder.py, main: one call of main per step; the two
\* APIs and the sudo command are the environment

\* the namespaces, site names and storage areas tried
SiteNames == {"CAM", "JPN"}
MainNamespaces == {S_daac, S_dotted, S_other}
NamespaceLists == {{}, {S_daac}, {S_daac, S_dotted, S_other}}
SiteLists == {{}, {"JPN"}, {"CAM", "JPN"}}
\* StorageAreaIDToNodeAndSite: storage area id -> <<node, site>>
StorageMaps == { [a \in {"s1", "s2"} |-> IF a = "s1" THEN <<"n1", "CAM">> ELSE <<"n2", "JPN">>],
                 [a \in {"s2"} |-> <<"n2", "JPN">>],
                 [a \in {} |-> <<"", "">>] }
\* DataLocation: associated_storage_area_id and replicas
Locations == [area : {"s1", "s2"}, replicas : {<<>>, <<U_a1>>, <<U_b>>, <<U_o>>, <<U_d>>}]
LocationLists == UNION {[1..n -> Locations] : n \in 0..MaxLocations}

MainStart(namespace, site_name) ==
    [pc |-> "check_namespace", namespace |-> namespace, site_name |-> site_name,
     all_namespaces |-> {}, all_sites |-> {}, site_stores |-> <<>>,
     data_locations |-> <<>>, rse_path |-> <<>>,
     steps |-> <<>>, error |-> "none",
     mount_cmd |-> [issued |-> FALSE, rse_path |-> <<>>, namespace |-> <<>>]]

\* the run ends with an exception or exit(1) in the step just made
MainFail(m, step, kind) ==
    [m EXCEPT !.pc = "done", !.steps = Append(@, step), !.error = kind]

\* check_namespace_available; answer: the list of the DM API, ok: the
\* request succeeded
CheckNamespaceAvailable(ok, answer) ==
    /\ mn.pc = "check_namespace"
    /\ mn' = IF ~ok \/ mn.namespace \notin answer
             THEN MainFail(mn, "check_namespace_available", "RuntimeError")
             ELSE [mn EXCEPT !.pc = "check_site", !.all_namespaces = answer,
                             !.steps = Append(@, "check_namespace_available")]
    /\ UNCHANGED <<fs, procs, pc, req, plan, outcome, log, msgs, pre, track, nreq, rs, au>>

\* check_site_name_exists; answer: the site names of the SC API
CheckSiteNameExists(ok, answer) ==
    /\ mn.pc = "check_site"
    /\ mn' = IF ~ok
             THEN MainFail(mn, "check_site_name_exists", "RuntimeError")
             ELSE IF mn.site_name \notin answer
                  THEN MainFail(mn, "check_site_name_exists", "exit1")
                  ELSE [mn EXCEPT !.pc = "storage_areas", !.all_sites = answer,
                                  !.steps = Append(@, "check_site_name_exists")]
    /\ UNCHANGED <<fs, procs, pc, req, plan, outcome, log, msgs, pre, track, nreq, rs, au>>

\* site_storage_areas
SiteStorageAreas(ok, answer) ==
    /\ mn.pc = "storage_areas"
    /\ mn' = IF ~ok
             THEN MainFail(mn, "site_storage_areas", "RuntimeError")
             ELSE [mn EXCEPT !.pc = "locate", !.site_stores = answer,
                             !.steps = Append(@, "site_storage_areas")]
    /\ UNCHANGED <<fs, procs, pc, req, plan, outcome, log, msgs, pre, track, nreq, rs, au>>

\* locate_data
LocateData(ok, answer) ==
    /\ mn.pc = "locate"
    /\ mn' = IF ~ok
             THEN MainFail(mn, "locate_data", "RuntimeError")
             ELSE [mn EXCEPT !.pc = "located", !.data_locations = answer,
                             !.steps = Append(@, "locate_data")]
    /\ UNCHANGED <<fs, procs, pc, req, plan, outcome, log, msgs, pre, track, nreq, rs, au>>

\* mutant: the data is taken to be at the site
Mut_IsDataLocatedAtSite(site_name, data_locations, site_stores) == TRUE

\* is_data_located_at_site
IsDataLocatedAtSite(site_name, data_locations, site_stores) ==
    LET sites_with_data ==
            [k \in 1..Len(data_locations) |->
                IF data_locations[k].area \in DOMAIN site_stores
                THEN site_stores[data_locations[k].area][2] ELSE "None"]
    IN  \E k \in 1..Len(sites_with_data) : sites_with_data[k] = site_name

\* print_data_locations_with_sites, is_data_located_at_site and the exit(1)
\* of main
CheckDataLocated ==
    /\ mn.pc = "located"
    /\ mn' = IF IsDataLocatedAtSite(mn.site_name, mn.data_locations, mn.site_stores)
             THEN [mn EXCEPT !.pc = "extract",
                             !.steps = Append(@, "is_data_located_at_site")]
             ELSE MainFail(mn, "is_data_located_at_site", "exit1")
    /\ UNCHANGED <<fs, procs, pc, req, plan, outcome, log, msgs, pre, track, nreq, rs, au>>

\* the loop of extract_rse_path over uris[i..]: the set matched_paths
RECURSIVE MatchedPaths(_, _, _)
MatchedPaths(namespace, uris, i) ==
    IF i > Len(uris) THEN {}
    ELSE LET match == Search(RsePathMatch(namespace), uris[i])
         IN  (IF match # 0 THEN {Group0(uris[i], match)} ELSE {})
                 \cup MatchedPaths(namespace, uris, i + 1)

\* extract_rse_path(data_locations, namespace, file_name)
ExtractRsePath(data_locations, namespace) ==
    LET replica_uris == Chain([k \in 1..Len(data_locations) |-> data_locations[k].replicas], 1)
    IN  ValidateMatched(MatchedPaths(namespace, replica_uris, 1))

\* rse_path = extract_rse_path(...)
ExtractStep ==
    /\ mn.pc = "extract"
    /\ LET res == ExtractRsePath(mn.data_locations, mn.namespace)
       IN  mn' = IF res.kind = "return"
                 THEN [mn EXCEPT !.pc = "mount", !.rse_path = res.value,
                                 !.steps = Append(@, "extract_rse_path")]
                 ELSE MainFail(mn, "extract_rse_path", res.kind)
    /\ UNCHANGED <<fs, procs, pc, req, plan, outcome, log, msgs, pre, track, nreq, rs, au>>

\* mount_data(rse_path, namespace): sudo pathfinder --mount rse_path namespace;
\* ok: the command ran and returned 0
MountData(ok) ==
    /\ mn.pc = "mount"
    /\ mn' = [mn EXCEPT !.pc = "done", !.steps = Append(@, "mount_data"),
                        !.error = IF ok THEN "none" ELSE "RuntimeError",
                        !.mount_cmd = [issued |-> TRUE, rse_path |-> mn.rse_path,
                                       namespace |-> mn.namespace]]
    /\ UNCHANGED <<fs, procs, pc, req, plan, outcome, log, msgs, pre, track, nreq, rs, au>>

InitMain ==
    /\ fs = InitFs
    /\ procs = {}
    /\ pc = [p \in Procs |-> "idle"]
    /\ req = [p \in Procs |-> NoRequest]
    /\ plan = [p \in Procs |-> NoPlan]
    /\ outcome = [p \in Procs |-> "none"]
    /\ log = [p \in Procs |-> <<>>]
    /\ msgs = [p \in Procs |-> <<>>]
    /\ pre = [p \in Procs |-> InitFs]
    /\ track = NoTrack
    /\ nreq = 0
    /\ rs = NoResolve
    /\ \E namespace \in MainNamespaces, site_name \in SiteNames :
           mn = MainStart(namespace, site_name)
    /\ au = NoAuth

NextMain ==
    \/ \E ok \in BOOLEAN, answer \in NamespaceLists : CheckNamespaceAvailable(ok, answer)
    \/ \E ok \in BOOLEAN, answer \in SiteLists : CheckSiteNameExists(ok, answer)
    \/ \E ok \in BOOLEAN, answer \in StorageMaps : SiteStorageAreas(ok, answer)
    \/ \E ok \in BOOLEAN, answer \in LocationLists : LocateData(ok, answer)
    \/ CheckDataLocated
    \/ ExtractStep
    \/ \E ok \in BOOLEAN : MountData(ok)

SpecMain == InitMain /\ [][NextMain]_vars

\* ---------------------------------------------------------------- oauth2_auth
\* src/path_finder/oauth2_auth.py: authenticate with the token cache file and
\* the polling loop; the authn service, the clock and whoever else writes the
\* cache file are the environment.  Times are seconds.

\* poll_for_authentication(device_code, interval=5, timeout=300)
PollTimeout == 300
DefaultInterval == 5
\* interval += 5
SlowDownStep == 5
\* save_tokens_to_cache(tokens, expires_in=3600)
ExpiresIn == 3600

\* a Python value that is None, or the string s
None == [none |-> TRUE, s |-> ""]
Str(s) == [none |-> FALSE, s |-> s]
\* bool(x) of such a value
Truthy(x) == ~x.none /\ x.s # ""

\* the token cache file: missing, not JSON, JSON that is no object, or an
\* object whose "expires_at" is absent, no string, a string that is no ISO
\* time, an ISO time with a UTC offset ("aware") or one without ("naive"),
\* and whose "tokens" is absent, null, {} or the two tokens
ExpiresForms == {"absent", "nonstring", "badformat", "aware", "naive"}
TokensForms == {"absent", "null", "empty", "pair"}
CacheObject(form, t, tokens) == [kind |-> "object", form |-> form, t |-> t, tokens |-> tokens]
CacheOther(kind) == [kind |-> kind, form |-> "absent", t |-> 0, tokens |-> "absent"]
CacheTimes == {0, 900, 1800}
CacheFiles ==
    {CacheOther(k) : k \in {"missing", "notjson", "nonobject"}}
        \cup {CacheObject(f, 0, tk) : f \in ExpiresForms \ {"naive", "aware"}, tk \in {"pair"}}
        \cup {CacheObject(f, t, tk) : f \in {"naive", "aware"}, t \in CacheTimes, tk \in TokensForms}

\* load_tokens_from_cache() at time now: the value returned, or the exception
\* that leaves the function
LoadTokensFromCache(cache, now) ==
    IF cache.kind = "missing" THEN [kind |-> "return", tokens |-> "null"]
    ELSE IF cache.kind = "notjson" THEN [kind |-> "return", tokens |-> "null"]      \* JSONDecodeError
    ELSE IF cache.kind = "nonobject" THEN [kind |-> "TypeError", tokens |-> "null"] \* cache_data["expires_at"]
    ELSE IF cache.form = "absent" THEN [kind |-> "return", tokens |-> "null"]       \* KeyError
    ELSE IF cache.form = "nonstring" THEN [kind |-> "TypeError", tokens |-> "null"] \* fromisoformat
    ELSE IF cache.form = "badformat" THEN [kind |-> "return", tokens |-> "null"]    \* ValueError
    ELSE IF cache.form = "aware" THEN [kind |-> "TypeError", tokens |-> "null"]     \* now() >= expires_at
    ELSE IF now >= cache.t THEN [kind |-> "return", tokens |-> "null"]
    ELSE IF cache.tokens = "absent" THEN [kind |-> "return", tokens |-> "null"]     \* KeyError
    ELSE [kind |-> "return", tokens |-> cache.tokens]

\* the answers of GET /token: status 200 with the value of "token" in the
\* body, or another status with the error named in the body
TokenFields == {"absent", "null", "empty", "string", "no_access_token",
                "null_access_token", "empty_access_token", "access_token"}
Errors == {"authorization_pending", "slow_down", "expired_token", "access_denied",
           "invalid_grant", "none"}
\* the "detail" of an error body: absent, without "response: {...}", with
\* text in the braces that is no JSON, or with embedded JSON
Details == {"absent", "nomatch", "badjson", "embedded"}
Answers ==
    [status : {200}, token : TokenFields, detail : {"absent"}, embedded : {"none"}, error : {"none"}]
        \cup [status : {400}, token : {"absent"}, detail : {"absent", "nomatch", "badjson"},
              embedded : {"none"}, error : Errors]
        \cup [status : {400}, token : {"absent"}, detail : {"embedded"},
              embedded : Errors, error : {"none", "slow_down"}]
        \cup [status : {0}, token : {"absent"}, detail : {"absent"}, embedded : {"none"}, error : {"none"}]
\* seconds a request takes (timeout=10)
Latencies == {0, 10}

\* parse_wrapped_error_response(error_data)[0]
ParseWrappedErrorResponse(answer) ==
    LET error == IF answer.detail = "embedded" THEN answer.embedded ELSE "none"
    IN  IF error = "none" THEN answer.error ELSE error

\* the value of the 200 branch: access_token_data.get("access_token"), or
\* the exception raised
TokenOf200(token) ==
    IF token \in {"absent", "null", "empty"}
    THEN [kind |-> "OAuth2AuthenticationError", value |-> None]
    ELSE IF token = "string" THEN [kind |-> "AttributeError", value |-> None]
    ELSE IF token \in {"no_access_token", "null_access_token"} THEN [kind |-> "return", value |-> None]
    ELSE IF token = "empty_access_token" THEN [kind |-> "return", value |-> Str("")]
    ELSE [kind |-> "return", value |-> Str("tok")]

NoResult == [kind |-> "none", value |-> None]
AuthIdle(cache, now) ==
    [pc |-> "idle", use_cache |-> FALSE, cache |-> cache, now |-> now,
     runs |-> 0, waits |-> 0,
     loaded |-> FALSE, cache_at_load |-> cache, now_at_load |-> 0,
     flow_started |-> FALSE, start_time |-> 0, interval |-> 0,
     last |-> "none", poll |-> NoResult,
     dm |-> FALSE, sc |-> FALSE, saved |-> FALSE,
     result |-> [kind |-> "none", tokens |-> "null"]]

\* authenticate returns tokens, or an exception leaves it
AuthReturn(a, tokens) == [a EXCEPT !.pc = "done", !.result = [kind |-> "return", tokens |-> tokens]]
AuthRaise(a, kind) == [a EXCEPT !.pc = "done", !.result = [kind |-> kind, tokens |-> "null"]]

\* authenticate(use_cache) is called
Authenticate(use_cache) ==
    /\ au.pc \in {"idle", "done"}
    /\ "runs" \in DOMAIN au
    /\ au.runs < MaxAuthRuns
    /\ au' = [AuthIdle(au.cache, au.now) EXCEPT
                 !.pc = IF use_cache THEN "load" ELSE "initiate",
                 !.use_cache = use_cache, !.runs = au.runs + 1, !.waits = au.waits]
    /\ UNCHANGED <<fs, procs, pc, req, plan, outcome, log, msgs, pre, track, nreq, rs, mn>>

\* time passes between two calls of authenticate
Wait(d) ==
    /\ au.pc = "done"
    /\ au.waits < MaxWaits
    /\ au' = [au EXCEPT !.now = @ + d, !.waits = @ + 1]
    /\ UNCHANGED <<fs, procs, pc, req, plan, outcome, log, msgs, pre, track, nreq, rs, mn>>

\* cached_tokens = load_tokens_from_cache(); if cached_tokens: return
LoadCached ==
    /\ au.pc = "load"
    /\ LET r == LoadTokensFromCache(au.cache, au.now)
           a == [au EXCEPT !.loaded = TRUE, !.cache_at_load = au.cache, !.now_at_load = au.now]
       IN  au' = IF r.kind # "return" THEN AuthRaise(a, r.kind)
                 ELSE IF r.tokens = "pair" THEN AuthReturn(a, r.tokens)
                 ELSE [a EXCEPT !.pc = "initiate"]
    /\ UNCHANGED <<fs, procs, pc, req, plan, outcome, log, msgs, pre, track, nreq, rs, mn>>

\* initiate_device_code_flow, display_user_instructions and the interval of
\* device_info; interval 0: the key is missing
InitiateDeviceCodeFlow(ok, interval) ==
    /\ au.pc = "initiate"
    /\ au' = IF ~ok THEN AuthRaise([au EXCEPT !.flow_started = TRUE], "OAuth2AuthenticationError")
             ELSE [au EXCEPT !.pc = "poll", !.flow_started = TRUE,
                             !.interval = IF interval = 0 THEN DefaultInterval ELSE interval,
                             !.start_time = au.now]
    /\ UNCHANGED <<fs, procs, pc, req, plan, outcome, log, msgs, pre, track, nreq, rs, mn>>

\* poll_for_authentication ends: the value returned or the exception is in
\* poll, and authenticate goes on or is left
PollEnd(a, r) ==
    IF r.kind = "return" THEN [a EXCEPT !.pc = "exchange_dm", !.poll = r]
    ELSE [AuthRaise(a, r.kind) EXCEPT !.poll = r]

\* mutant: slow_down sleeps without a longer interval
Mut_PollRequest(answer, latency) ==
    /\ au.pc = "poll"
    /\ au.now - au.start_time < PollTimeout
    /\ LET error == ParseWrappedErrorResponse(answer)
           a == [au EXCEPT !.now = @ + latency,
                           !.last = IF answer.status = 200 THEN "200"
                                    ELSE IF answer.status = 0 THEN "RequestException"
                                    ELSE error]
       IN  au' = IF answer.status = 0
                 THEN PollEnd(a, [kind |-> "OAuth2AuthenticationError", value |-> None])
                 ELSE IF answer.status = 200 THEN PollEnd(a, TokenOf200(answer.token))
                 ELSE IF error \in {"authorization_pending", "slow_down"}
                      THEN [a EXCEPT !.now = @ + au.interval]
                      ELSE PollEnd(a, [kind |-> "OAuth2AuthenticationError", value |-> None])
    /\ UNCHANGED <<fs, procs, pc, req, plan, outcome, log, msgs, pre, track, nreq, rs, mn>>

\* one turn of the while loop: the request, its answer after latency seconds
\* (status 0: RequestException), and what the body of the loop does with it
PollRequest(answer, latency) ==
    /\ au.pc = "poll"
    /\ au.now - au.start_time < PollTimeout
    /\ LET error == ParseWrappedErrorResponse(answer)
           a == [au EXCEPT !.now = @ + latency,
                           !.last = IF answer.status = 200 THEN "200"
                                    ELSE IF answer.status = 0 THEN "RequestException"
                                    ELSE error]
       IN  au' = IF answer.status = 0
                 THEN PollEnd(a, [kind |-> "OAuth2AuthenticationError", value |-> None])
                 ELSE IF answer.status = 200 THEN PollEnd(a, TokenOf200(answer.token))
                 ELSE IF error = "authorization_pending"
                      THEN [a EXCEPT !.now = @ + au.interval]
                 ELSE IF error = "slow_down"
                      THEN [a EXCEPT !.interval = @ + SlowDownStep,
                                     !.now = @ + au.interval + SlowDownStep]
                      ELSE PollEnd(a, [kind |-> "OAuth2AuthenticationError", value |-> None])
    /\ UNCHANGED <<fs, procs, pc, req, plan, outcome, log, msgs, pre, track, nreq, rs, mn>>

\* the while condition is false: raise "Authorization timeout"
PollTimedOut ==
    /\ au.pc = "poll"
    /\ ~(au.now - au.start_time < PollTimeout)
    /\ au' = PollEnd([au EXCEPT !.last = "timeout"],
                     [kind |-> "OAuth2AuthenticationError", value |-> None])
    /\ UNCHANGED <<fs, procs, pc, req, plan, outcome, log, msgs, pre, track, nreq, rs, mn>>

\* exchange_token_for_api_token(auth_token, DATA_MANAGEMENT); ok: the
\* request succeeded and the body held a token
ExchangeDM(ok) ==
    /\ au.pc = "exchange_dm"
    /\ au' = IF ok THEN [au EXCEPT !.pc = "exchange_sc", !.dm = TRUE]
             ELSE AuthRaise(au, "OAuth2AuthenticationError")
    /\ UNCHANGED <<fs, procs, pc, req, plan, outcome, log, msgs, pre, track, nreq, rs, mn>>

\* exchange_token_for_api_token(auth_token, SITE_CAPABILITIES)
ExchangeSC(ok) ==
    /\ au.pc = "exchange_sc"
    /\ au' = IF ok THEN [au EXCEPT !.pc = "save", !.sc = TRUE]
             ELSE AuthRaise(au, "OAuth2AuthenticationError")
    /\ UNCHANGED <<fs, procs, pc, req, plan, outcome, log, msgs, pre, track, nreq, rs, mn>>

\* save_tokens_to_cache(tokens, expires_in=3600); return tokens
SaveTokensToCache ==
    /\ au.pc = "save"
    /\ au' = AuthReturn([au EXCEPT !.cache = CacheObject("naive", au.now + ExpiresIn, "pair"),
                                   !.saved = TRUE], "pair")
    /\ UNCHANGED <<fs, procs, pc, req, plan, outcome, log, msgs, pre, track, nreq, rs, mn>>

\* the intervals of device_info tried (0: none given), and the waits
Intervals == {0, 100, 145}
Waits == {1800, 3600}
\* the answers and intervals tried in the runs of authenticate
AuthAnswers ==
    {a \in Answers : \/ a.status = 200 /\ a.token \in {"access_token", "no_access_token", "empty"}
                     \/ a.status = 400 /\ a.detail = "absent"
                          /\ a.error \in {"authorization_pending", "access_denied"}}
AuthIntervals == {145}

InitAuth ==
    /\ fs = InitFs
    /\ procs = {}
    /\ pc = [p \in Procs |-> "idle"]
    /\ req = [p \in Procs |-> NoRequest]
    /\ plan = [p \in Procs |-> NoPlan]
    /\ outcome = [p \in Procs |-> "none"]
    /\ log = [p \in Procs |-> <<>>]
    /\ msgs = [p \in Procs |-> <<>>]
    /\ pre = [p \in Procs |-> InitFs]
    /\ track = NoTrack
    /\ nreq = 0
    /\ rs = NoResolve
    /\ mn = NoMain
    /\ \E cache \in CacheFiles : au = AuthIdle(cache, 900)

NextAuth ==
    \/ \E use_cache \in BOOLEAN : Authenticate(use_cache)
    \/ \E d \in Waits : Wait(d)
    \/ LoadCached
    \/ \E ok \in BOOLEAN, interval \in AuthIntervals : InitiateDeviceCodeFlow(ok, interval)
    \/ \E answer \in AuthAnswers : PollRequest(answer, 0)
    \/ PollTimedOut
    \/ \E ok \in BOOLEAN : ExchangeDM(ok)
    \/ \E ok \in BOOLEAN : ExchangeSC(ok)
    \/ SaveTokensToCache

SpecAuth == InitAuth /\ [][NextAuth]_vars

\* poll_for_authentication(device_code, interval) alone: authenticate has
\* called it with the interval of device_info, and all answers are tried
InitPoll ==
    /\ fs = InitFs
    /\ procs = {}
    /\ pc = [p \in Procs |-> "idle"]
    /\ req = [p \in Procs |-> NoRequest]
    /\ plan = [p \in Procs |-> NoPlan]
    /\ outcome = [p \in Procs |-> "none"]
    /\ log = [p \in Procs |-> <<>>]
    /\ msgs = [p \in Procs |-> <<>>]
    /\ pre = [p \in Procs |-> InitFs]
    /\ track = NoTrack
    /\ nreq = 0
    /\ rs = NoResolve
    /\ mn = NoMain
    /\ \E interval \in Intervals :
           au = [AuthIdle(CacheOther("missing"), 900) EXCEPT
                   !.pc = "poll", !.runs = 1, !.flow_started = TRUE,
                   !.interval = IF interval = 0 THEN DefaultInterval ELSE interval,
                   !.start_time = 900]

NextPoll ==
    \/ \E answer \in Answers, latency \in Latencies : PollRequest(answer, latency)
    \/ PollTimedOut

SpecPoll == InitPoll /\ [][NextPoll]_vars

\* ---------------------------------------------------------------- claims
MountCount(f, path) == Cardinality({i \in 1..Len(f.mtab) : f.mtab[i].on = path})

\* the request passed the privilege and SUDO_USER checks of mount_unmount
Privileged(r) == r.env.euid = 0 /\ r.env.sudo_user # <<>>

\* the path segments of the command-line path, the root not counted
Segments(raw) == SplitParts(raw, 1, <<>>, <<>>)

\* the request issued a call or command that changes the filesystem
Mutating(lg) == \E i \in 1..Len(lg) : lg[i].cmd # "mountpoint"

\* the request of p directly follows a successful mount with the same path,
\* group and user
RepeatsMount(p) ==
    /\ track.stage = 1
    /\ req[p].op = "mount"
    /\ req[p].rse_path = track.rse_path
    /\ req[p].group = track.group
    /\ req[p].env = [euid |-> 0, sudo_user |-> track.sudo_user]

\* C1: a mount request that directly follows a successful mount request for
\* the same path, group and user ends with CyclicMount and leaves the
\* filesystem (paths, owners, modes, mount table) as it found it.
C1_SecondMountRejected ==
    \A p \in procs :
        (pc[p] = "done" /\ RepeatsMount(p))
            => /\ outcome[p] = "CyclicMount"
               /\ fs = pre[p]
               /\ ~Mutating(log[p])

\* C2: a finished mount request that got as far as the filesystem either
\* succeeded and added one mount on remapTarget and one on projectFile, or
\* failed and left the number of mounts on both as it found them.
C2_AllOrNothing ==
    \A p \in procs :
        (pc[p] = "done" /\ req[p].op = "mount" /\ plan[p] # NoPlan)
            => LET bt == plan[p].bind_target
                   pf == plan[p].project_file
               IN  IF outcome[p] = "ok"
                   THEN /\ MountCount(fs, bt) = MountCount(pre[p], bt) + 1
                        /\ MountCount(fs, pf) = MountCount(pre[p], pf) + 1
                   ELSE /\ MountCount(fs, bt) = MountCount(pre[p], bt)
                        /\ MountCount(fs, pf) = MountCount(pre[p], pf)

\* the last command of the request is the verification query on projectFile,
\* made after bindfs and mount --bind both returned 0
VerificationQuery(p) ==
    LET lg == log[p]
        n == Len(lg)
    IN  /\ n >= 3
        /\ lg[n].cmd = "mountpoint" /\ lg[n].on = plan[p].project_file
        /\ lg[n - 1] = LogEntry("mount", plan[p].project_file, 0)
        /\ lg[n - 2] = LogEntry("bindfs", plan[p].bind_target, 0)

\* C3: a mount request ends with exit code 0 only if its last step was the
\* mount-point query on projectFile, made after both mount commands returned
\* 0, and the query answered true; when that query answers false the request
\* ends with VerificationFailed and exit code 1.
C3_SuccessOnlyIfVerified ==
    \A p \in procs :
        (pc[p] = "done" /\ req[p].op = "mount")
            => /\ ExitCode(outcome[p]) = 0
                    => (VerificationQuery(p) /\ log[p][Len(log[p])].rc = 0)
               /\ (VerificationQuery(p) /\ log[p][Len(log[p])].rc # 0)
                    => (outcome[p] = "VerificationFailed" /\ ExitCode(outcome[p]) = 1)

\* C3 witness: both mount commands returned 0, the query answered false and
\* the request failed with VerificationFailed
C3_Witness ==
    \E p \in procs :
        /\ pc[p] = "done" /\ req[p].op = "mount"
        /\ VerificationQuery(p) /\ log[p][Len(log[p])].rc # 0
        /\ outcome[p] = "VerificationFailed"

\* the request ends with the failed mount --bind directly followed by the
\* umount of remapTarget
RolledBack(p) ==
    LET lg == log[p]
        n == Len(lg)
    IN  /\ n >= 2
        /\ lg[n].cmd = "umount" /\ lg[n].on = plan[p].bind_target
        /\ lg[n - 1] = LogEntry("mount", plan[p].project_file, 1)

UnmountsTracked(p) ==
    /\ track.stage \in {1, 2}
    /\ req[p].op = "unmount"
    /\ req[p].rse_path = track.rse_path
    /\ req[p].env = [euid |-> 0, sudo_user |-> track.sudo_user]

\* every command of the request is an umount that returned non-zero
OnlyFailedUmounts(lg) == \A i \in 1..Len(lg) : lg[i].cmd = "umount" /\ lg[i].rc # 0

OnlyWarnings(ms) == \A i \in 1..Len(ms) : ms[i].level \in {"Warning", "Info"}

\* C5: after a successful mount, the unmount and the second unmount of the
\* same path both end with exit code 0; the second finds nothing mounted and
\* nothing to remove, prints only warnings and leaves the filesystem as it
\* found it.
C5_UnmountTwice ==
    \A p \in procs :
        (pc[p] = "done" /\ UnmountsTracked(p))
            => /\ ExitCode(outcome[p]) = 0
               /\ track.stage = 2
                    => /\ OnlyFailedUmounts(log[p])
                       /\ OnlyWarnings(msgs[p])
                       /\ fs = pre[p]

\* the request issued umount projectFile, then umount remapTarget, then the
\* removal of each of the two that was present
AllStepsAttempted(p) ==
    LET lg == log[p]
        bt == plan[p].bind_target
        pf == plan[p].project_file
    IN  /\ Len(lg) >= 2
        /\ lg[1].cmd = "umount" /\ lg[1].on = pf
        /\ lg[2].cmd = "umount" /\ lg[2].on = bt
        /\ bt \in pre[p].ex => \E i \in 3..Len(lg) : lg[i].cmd = "rm" /\ lg[i].on = bt
        /\ pf \in pre[p].ex => \E i \in 3..Len(lg) : lg[i].cmd = "unlink" /\ lg[i].on = pf

\* C6: whatever the two umount commands return, a finished unmount request
\* that derived its paths attempted all three steps and ended with exit code 0.
C6_UnmountBestEffort ==
    \A p \in procs :
        (pc[p] = "done" /\ req[p].op = "unmount" /\ plan[p] # NoPlan)
            => /\ AllStepsAttempted(p)
               /\ ExitCode(outcome[p]) = 0

\* the cycle check of the request answered that remapTarget's parent is a
\* mount point
CycleFound(p) ==
    /\ req[p].op = "mount"
    /\ log[p] # <<>>
    /\ log[p][1] = LogEntry("mountpoint", PathParent(plan[p].bind_target), 0)

\* C7: a mount request whose cycle check finds remapTarget's parent mounted
\* ends there with CyclicMount and exit code 1: the query is the only command
\* it issued and the filesystem is as the request found it.
C7_CyclicMountNoMutation ==
    \A p \in procs :
        CycleFound(p)
            => /\ pc[p] = "done"
               /\ outcome[p] = "CyclicMount"
               /\ ExitCode(outcome[p]) = 1
               /\ Len(log[p]) = 1
               /\ fs = pre[p]

\* C7 witness: a mount below a directory that an earlier request mounted
\* ended with CyclicMount
C7_Witness ==
    \E p \in procs :
        /\ pc[p] = "done" /\ CycleFound(p) /\ outcome[p] = "CyclicMount"
        /\ PathParent(plan[p].bind_target) # <<ROOT>>
        /\ MountCount(fs, PathParent(plan[p].bind_target)) = 1

\* the request is privileged, its path has at least two segments and the
\* first of them is not the supplied group
GroupMismatch(r) ==
    /\ Privileged(r)
    /\ Len(Segments(r.rse_path)) >= 2
    /\ Segments(r.rse_path)[1] # r.group

\* C8: a mount request whose leading path segment differs from the group is
\* rejected with NamespaceMismatch, exit code 1, before it issued any call or
\* command, the filesystem being as the request found it.
C8_MismatchRejectedBeforeMutation ==
    \A p \in procs :
        (req[p].op = "mount" /\ GroupMismatch(req[p]))
            => /\ pc[p] = "done"
               /\ outcome[p] = "NamespaceMismatch"
               /\ ExitCode(outcome[p]) = 1
               /\ log[p] = <<>>
               /\ fs = pre[p]

\* C8 witness: a mount of daac/f.fits under another group was rejected while
\* the filesystem already held the directories of an earlier request
C8_Witness ==
    \E p \in procs :
        /\ pc[p] = "done" /\ req[p].op = "mount" /\ GroupMismatch(req[p])
        /\ outcome[p] = "NamespaceMismatch"
        /\ fs # InitFs

\* C9: every request, unmount included, whose leading path segment differs
\* from the group ends with NamespaceMismatch without having issued any call
\* or command.
C9_MismatchRejectedForUnmount ==
    \A p \in procs :
        (pc[p] = "done" /\ req[p].op \in {"mount", "unmount"} /\ GroupMismatch(req[p]))
            => /\ outcome[p] = "NamespaceMismatch"
               /\ log[p] = <<>>
               /\ fs = pre[p]

\* C10: every privileged request whose path has fewer than two segments (the
\* leading slash not counted) ends with InvalidPath without having issued any
\* call or command.
C10_ShortPathInvalid ==
    \A p \in procs :
        (pc[p] = "done" /\ req[p].op \in {"mount", "unmount"} /\ Privileged(req[p])
                        /\ Len(Segments(req[p].rse_path)) < 2)
            => /\ outcome[p] = "InvalidPath"
               /\ log[p] = <<>>
               /\ fs = pre[p]

\* the leaf file name of the command-line path without its extension
LeafStem(raw) == PathName(WithSuffixEmpty(PathOf(raw)))

\* C11: for every request that derived its paths from a path of at least two
\* segments, remapTarget is <home of the invoking user>/.binds/<leaf file
\* name without extension>, a directory directly under the private-mounts
\* root.
C11_RemapTargetUnderPrivateRoot ==
    \A p \in procs :
        (plan[p] # NoPlan /\ Len(Segments(req[p].rse_path)) >= 2)
            => plan[p].bind_target
                   = HomeDir(req[p].env.sudo_user) \o <<S_binds, LeafStem(req[p].rse_path)>>

\* the external commands of a request
ExternalCommands == {"bindfs", "mount", "umount", "rm"}

\* what a diagnostic about the log entry e of invocation p is about
AboutOf(p, e) ==
    IF e.cmd = "umount"
    THEN (IF e.on = plan[p].project_file THEN "umount project_file"
          ELSE "umount bind_target")
    ELSE e.cmd

\* invocation p printed an error or a warning about its log entry e
Diagnosed(p, e) ==
    \E i \in 1..Len(msgs[p]) :
        /\ msgs[p][i].level \in {"Error", "Warning"}
        /\ msgs[p][i].about = AboutOf(p, e)

\* C16: every external command of a finished request (bindfs, mount --bind,
\* umount, rm -rf) that returned non-zero has a diagnostic about it among the
\* messages of the request.
C16_NoSilentFailure ==
    \A p \in procs :
        pc[p] = "done"
            => \A i \in 1..Len(log[p]) :
                   (log[p][i].cmd \in ExternalCommands /\ log[p][i].rc # 0)
                       => Diagnosed(p, log[p][i])

\* the indices at which uri contains the segment "/<namespace>/"
SegmentAt(namespace, uri) ==
    LET seg == <<"/">> \o namespace \o <<"/">>
    IN  {i \in 1..Len(uri) : /\ i + Len(seg) - 1 <= Len(uri)
                             /\ SubSeq(uri, i, i + Len(seg) - 1) = seg}

\* the namespace-prefixed paths of the replica URIs: for each URI that
\* contains "/<namespace>/", the URI from the first such segment to its end
NamespacePaths(namespace, uris) ==
    {SubSeq(uris[k], CHOOSE i \in SegmentAt(namespace, uris[k]) :
                         \A j \in SegmentAt(namespace, uris[k]) : i <= j,
            Len(uris[k])) :
        k \in {n \in 1..Len(uris) : SegmentAt(namespace, uris[n]) # {}}}

\* C12: when the URIs that contain "/<namespace>/" all yield one and the same
\* namespace-prefixed path, extract_rse_path returns that path, however many
\* other URIs lack the segment.
C12_SharedPathReturned ==
    (rs.pc = "done" /\ Cardinality(NamespacePaths(rs.namespace, rs.replica_uris)) = 1)
        => /\ rs.result.kind = "return"
           /\ rs.result.value \in NamespacePaths(rs.namespace, rs.replica_uris)

\* C13: when the replica URIs hold two or more distinct namespace-prefixed
\* paths, extract_rse_path raises NotImplementedError (AmbiguousLocation) and
\* returns none of them, in whatever order the URIs come.
C13_DistinctPathsAmbiguous ==
    (rs.pc = "done" /\ Cardinality(NamespacePaths(rs.namespace, rs.replica_uris)) >= 2)
        => rs.result = [kind |-> "NotImplementedError", value |-> <<>>]

\* C13 witness: two distinct paths, the replica of siteB listed before the
\* replica of siteA, ended with NotImplementedError
C13_Witness ==
    /\ rs.pc = "done"
    /\ rs.replica_uris = <<U_b, U_o, U_a1>>
    /\ rs.namespace = S_daac
    /\ Cardinality(NamespacePaths(rs.namespace, rs.replica_uris)) = 2
    /\ rs.result.kind = "NotImplementedError"

\* C14: when no replica URI contains "/<namespace>/" (no replica at all
\* included), extract_rse_path raises RuntimeError (NotFound).
C14_NoMatchNotFound ==
    (rs.pc = "done" /\ NamespacePaths(rs.namespace, rs.replica_uris) = {})
        => rs.result = [kind |-> "RuntimeError", value |-> <<>>]

\* invocation p is a mount request that made its cycle check
Checked(p) == req[p].op = "mount" /\ plan[p] # NoPlan /\ log[p] # <<>>

\* C15: the cycle check of a mount invocation is decided by one look at the
\* mount table, at the parent of remapTarget: the invocation is stopped by it
\* exactly when that parent was a mount point at that moment.  Nothing holds
\* an invocation back afterwards: once past the check, its stage-1 mount can
\* be performed whatever another invocation has mounted on remapTarget in the
\* meantime.
C15_CheckThenActUnguarded ==
    \A p \in procs :
        /\ Checked(p)
              => (outcome[p] = "CyclicMount"
                    <=> IsMountpoint(pre[p], PathParent(plan[p].bind_target)))
        /\ pc[p] = "cycle" => ENABLED CycleCheck(p)
        /\ pc[p] = "bindfs" => ENABLED PerformBindfsMount(p, TRUE)

\* C15 witness: two invocations with the same remapTarget both made their
\* cycle check while nothing was mounted on it, and both then mounted bindfs
\* on it
C15_Witness ==
    /\ procs = {1, 2}
    /\ plan[1].bind_target = plan[2].bind_target
    /\ \A p \in procs :
          /\ pc[p] = "bind"
          /\ Checked(p)
          /\ MountCount(pre[p], plan[p].bind_target) = 0
          /\ log[p][Len(log[p])] = LogEntry("bindfs", plan[p].bind_target, 0)
    /\ MountCount(fs, plan[1].bind_target) = 2

\* C17: a finished request made without elevated privilege or without
\* SUDO_USER ended with exit status 1 without having issued any call or
\* command, the filesystem being as it found it; every finished request ended
\* with exit status 0 when it succeeded and 1 when it failed.
C17_PrivilegeFirstExitZeroOrOne ==
    \A p \in procs :
        pc[p] = "done"
            => /\ ~Privileged(req[p])
                    => (ExitStatus(p) = 1 /\ log[p] = <<>> /\ fs = pre[p])
               /\ ExitStatus(p) = (IF outcome[p] = "ok" THEN 0 ELSE 1)

\* C18: when the ownership-and-permissions step of a mount request has
\* completed (the request stands before its stage-1 mount), remapTarget has
\* mode 0700 (448) and projectFile has mode 0600 (384).
C18_OwnerOnlyModes ==
    \A p \in procs :
        pc[p] = "bindfs"
            => /\ fs.mode[plan[p].bind_target] = 448
               /\ fs.mode[plan[p].project_file] = 384

\* C19: when the ownership step of a mount request has completed (the
\* request stands before its stage-1 mount), the private-mounts root of the
\* invoking user, every path below it and the projects directory are owned by
\* the uid and gid of that user.
C19_OwnedByInvokingUser ==
    \A p \in procs :
        pc[p] = "bindfs"
            => LET user == req[p].env.sudo_user
                   binds == Join(HomeDir(user), <<S_binds>>)
               IN  \A q \in fs.ex :
                       (IsPrefix(binds, q) \/ q = PathParent(plan[p].project_file))
                           => fs.own[q] = Passwd[user]

\* the calls and commands of a mount request in the order of mount_file:
\* cycle check, preparation with ownership and permissions, stage 1, stage 2,
\* verification
MountOrder(p) ==
    LET bt == plan[p].bind_target
        pf == plan[p].project_file
        binds == Join(HomeDir(req[p].env.sudo_user), <<S_binds>>)
    IN  << <<"mountpoint", PathParent(bt)>>,
           <<"mkdir", bt>>, <<"chown", binds>>, <<"chmod", bt>>,
           <<"mkdir", PathParent(pf)>>, <<"touch", pf>>, <<"chown", PathParent(pf)>>,
           <<"chmod", pf>>,
           <<"bindfs", bt>>,
           <<"mount", pf>>,
           <<"mountpoint", pf>> >>

\* entry i of the log of p is a failed step: the cycle check that found a
\* mount point, or a call or command that returned non-zero
FailedStep(p, i) ==
    IF i = 1 THEN log[p][i].rc = 0 ELSE log[p][i].rc # 0

\* entry i of the log of p is the umount of remapTarget that follows a failed
\* stage-2 mount
RollbackEntry(p, i) ==
    /\ i = Len(log[p]) /\ i > 1
    /\ log[p][i].cmd = "umount" /\ log[p][i].on = plan[p].bind_target
    /\ log[p][i - 1] = LogEntry("mount", plan[p].project_file, 1)

\* C20: the calls and commands of a mount request follow the order cycle
\* check, preparation, stage-1 mount, stage-2 mount, verification; nothing is
\* issued after a failed step except the umount of remapTarget after a failed
\* stage-2 mount, and a failed step ends the request; after a failed stage-1
\* mount no command at all is issued.
C20_StrictOrderAbortOnFailure ==
    \A p \in procs :
        (req[p].op = "mount" /\ plan[p] # NoPlan)
            => \A i \in 1..Len(log[p]) :
                   /\ RollbackEntry(p, i)
                         \/ (/\ i <= Len(MountOrder(p))
                             /\ <<log[p][i].cmd, log[p][i].on>> = MountOrder(p)[i])
                   /\ FailedStep(p, i)
                         => /\ pc[p] = "done"
                            /\ ExitCode(outcome[p]) = 1
                            /\ i = Len(log[p]) \/ (i + 1 = Len(log[p]) /\ RollbackEntry(p, i + 1))
                   /\ (log[p][i].cmd = "bindfs" /\ log[p][i].rc # 0) => i = Len(log[p])

\* C20 witness: the stage-1 mount failed and was the last command of the
\* request, which left the mount table as it found it
C20_Witness ==
    \E p \in procs :
        /\ pc[p] = "done" /\ req[p].op = "mount" /\ outcome[p] = "BindfsFailed"
        /\ Len(log[p]) = 9
        /\ log[p][9] = LogEntry("bindfs", plan[p].bind_target, 1)
        /\ fs.mtab = pre[p].mtab

\* the bind mounts on path
BindCount(f, path) ==
    Cardinality({i \in 1..Len(f.mtab) : f.mtab[i].on = path /\ f.mtab[i].kind = "bind"})

\* C21: no path carries more than one bind mount; a mount request for a
\* path whose projectFile is still bind-mounted from a request for another
\* path does not succeed.
C21_OneBindMountPerProjectFile ==
    /\ \A q \in fs.ex : BindCount(fs, q) <= 1
    /\ \A p \in procs :
          (pc[p] = "done" /\ req[p].op = "mount" /\ plan[p] # NoPlan
                         /\ BindCount(pre[p], plan[p].project_file) > 0)
              => outcome[p] # "ok"

\* C22: the first command of an unmount request is the umount of
\* projectFile, the second the umount of remapTarget, and the removals (rm -rf
\* of remapTarget, unlink of projectFile) come only after these two.
C22_TeardownOrder ==
    \A p \in procs :
        (req[p].op = "unmount" /\ plan[p] # NoPlan)
            => LET lg == log[p]
               IN  /\ Len(lg) >= 1 => (lg[1].cmd = "umount" /\ lg[1].on = plan[p].project_file)
                   /\ Len(lg) >= 2 => (lg[2].cmd = "umount" /\ lg[2].on = plan[p].bind_target)
                   /\ \A i \in 1..Len(lg) : lg[i].cmd \in {"rm", "unlink"} => i >= 3
                   /\ \A i \in 1..Len(lg) : i >= 3 => lg[i].cmd \in {"rm", "unlink"}

\* C22 witness: an unmount request took the bind mount off projectFile, then
\* bindfs off remapTarget, then removed both
C22_Witness ==
    \E p \in procs :
        /\ pc[p] = "done" /\ req[p].op = "unmount" /\ plan[p] # NoPlan
        /\ log[p] = << LogEntry("umount", plan[p].project_file, 0),
                       LogEntry("umount", plan[p].bind_target, 0),
                       LogEntry("rm", plan[p].bind_target, 0),
                       LogEntry("unlink", plan[p].project_file, 0) >>
        /\ BindCount(pre[p], plan[p].project_file) = 1

\* the request is a privileged mount for a user that the identity database
\* does not know, with a path of at least two segments under the given group
UnknownUserMount(r) ==
    /\ r.op = "mount"
    /\ Privileged(r)
    /\ r.env.sudo_user \notin DOMAIN Passwd
    /\ Len(Segments(r.rse_path)) >= 2
    /\ Segments(r.rse_path)[1] = r.group

\* C23: a mount request for a user unknown to the identity database never
\* issues a call or command that changes the filesystem, leaves the
\* filesystem as it found it, and ends with UnknownIdentity and exit code 1.
C23_UnknownIdentityBeforeMutation ==
    \A p \in procs :
        UnknownUserMount(req[p])
            => /\ ~Mutating(log[p])
               /\ fs = pre[p]
               /\ pc[p] = "done" => (outcome[p] = "UnknownIdentity" /\ ExitCode(outcome[p]) = 1)

\* C23 witness: the mount request of bob passed the cycle check and ended
\* with UnknownIdentity
C23_Witness ==
    \E p \in procs :
        /\ pc[p] = "done" /\ UnknownUserMount(req[p])
        /\ outcome[p] = "UnknownIdentity"
        /\ Len(log[p]) = 1 /\ log[p][1].cmd = "mountpoint" /\ log[p][1].rc = 1

\* the set of the URIs of a replica list
UriSet(uris) == {uris[k] : k \in 1..Len(uris)}

\* the outcome that a set of URIs determines for a namespace: the paths of
\* the URIs that match, none -> RuntimeError, several -> NotImplementedError,
\* one -> that path
OutcomeOfSet(namespace, uriset) ==
    LET pat == RsePathMatch(namespace)
        paths == {Group0(u, Search(pat, u)) : u \in {v \in uriset : Search(pat, v) # 0}}
    IN  IF paths = {} THEN [kind |-> "RuntimeError", value |-> <<>>]
        ELSE IF \E x, y \in paths : x # y
             THEN [kind |-> "NotImplementedError", value |-> <<>>]
             ELSE [kind |-> "return", value |-> CHOOSE x \in paths : TRUE]

\* C24: the outcome of extract_rse_path (the returned path, RuntimeError or
\* NotImplementedError) is the one determined by the namespace and the set of
\* the replica URIs, whatever their order and however often each occurs.
C24_OutcomeDependsOnUriSet ==
    rs.pc = "done"
        => rs.result = OutcomeOfSet(rs.namespace, UriSet(rs.replica_uris))

\* C24 witness: a list with a repeated URI, whose first and last entries
\* carry the same path, returned that path
C24_Witness ==
    /\ rs.pc = "done"
    /\ rs.namespace = S_daac
    /\ rs.replica_uris = <<U_a2, U_o, U_a1, U_a2>>
    /\ rs.result.kind = "return"
    /\ rs.result.value = <<"/">> \o S_daac \o <<"/", "a", "/", "f">>

\* C25: when an unmount request that directly follows a successful mount of
\* the same path by the same user has finished and both its umount commands
\* returned 0, projectFile and remapTarget are no mount points and do not
\* exist, and the request ended with exit code 0.
C25_RoundTrip ==
    \A p \in procs :
        (/\ pc[p] = "done" /\ UnmountsTracked(p) /\ track.stage = 1
         /\ Len(log[p]) >= 2 /\ log[p][1].rc = 0 /\ log[p][2].rc = 0)
            => /\ ~IsMountpoint(fs, plan[p].project_file)
               /\ ~IsMountpoint(fs, plan[p].bind_target)
               /\ plan[p].project_file \notin fs.ex
               /\ plan[p].bind_target \notin fs.ex
               /\ ExitCode(outcome[p]) = 0

\* the calls of main, in the order of the source
MainOrder ==
    <<"check_namespace_available", "check_site_name_exists", "site_storage_areas",
      "locate_data", "is_data_located_at_site", "extract_rse_path", "mount_data">>

\* the replica URIs of the data locations, in order
ReplicaUris(data_locations) ==
    Chain([k \in 1..Len(data_locations) |-> data_locations[k].replicas], 1)

\* C26: in path_finder.main the mount command is invoked only after the four
\* checks passed in this order: the namespace is among the available
\* namespaces, the site name exists, at least one data location is in a
\* storage area of the requested site, the replica URIs resolve to exactly one
\* path; a run that a check ended has not invoked the mount command.
C26_MountOnlyAfterChecks ==
    mn.pc # "idle" =>
        /\ mn.steps = SubSeq(MainOrder, 1, Len(mn.steps))
        /\ mn.mount_cmd.issued =>
              /\ mn.steps = MainOrder
              /\ mn.namespace \in mn.all_namespaces
              /\ mn.site_name \in mn.all_sites
              /\ \E k \in 1..Len(mn.data_locations) :
                    /\ mn.data_locations[k].area \in DOMAIN mn.site_stores
                    /\ mn.site_stores[mn.data_locations[k].area][2] = mn.site_name
              /\ MatchedPaths(mn.namespace, ReplicaUris(mn.data_locations), 1)
                    = {mn.mount_cmd.rse_path}
              /\ mn.mount_cmd.namespace = mn.namespace
        /\ (mn.pc = "done" /\ mn.steps # MainOrder) =>
              /\ mn.error # "none"
              /\ ~mn.mount_cmd.issued

\* C26 witness: the mount command was invoked and returned 0 for a file with
\* two data locations, one of them at another site, and a replica URI that
\* does not match the namespace
C26_Witness ==
    /\ mn.pc = "done"
    /\ mn.mount_cmd.issued
    /\ mn.error = "none"
    /\ Len(mn.data_locations) = 2
    /\ \E k \in 1..2 : mn.site_stores[mn.data_locations[k].area][2] # mn.site_name
    /\ \E k \in 1..2 : mn.data_locations[k].replicas = <<U_o>>

\* the cache file parses and holds an expiry time
CacheParses(cache) ==
    cache.kind = "object" /\ cache.form \in {"naive", "aware"} /\ cache.tokens # "absent"

\* the cache is missing, expired or malformed at time now
CacheUnusable(cache, now) == ~CacheParses(cache) \/ now >= cache.t

\* C27: authenticate returns cached tokens, without starting the device-code
\* flow, only when use_cache is true and the cache file exists, parses and
\* has expires_at strictly later than now; after a missing, expired or
\* malformed cache the full flow runs; the cache file is rewritten only after
\* both API tokens were obtained.
C27_CachedTokensOnlyWhileFresh ==
    au.pc # "idle" =>
        /\ (au.pc = "done" /\ au.result.kind = "return" /\ ~au.flow_started) =>
              /\ au.use_cache
              /\ au.loaded
              /\ CacheParses(au.cache_at_load)
              /\ au.cache_at_load.t > au.now_at_load
        /\ (au.loaded /\ CacheUnusable(au.cache_at_load, au.now_at_load)) =>
              (au.pc = "initiate" \/ au.flow_started)
        /\ au.saved => (au.dm /\ au.sc)
        /\ ~au.saved => au.cache = au.cache_at_load

\* the answers after which the loop sleeps and goes on
Continuing == {"authorization_pending", "slow_down"}

\* one step of poll_for_authentication, from the top of the while loop
PollStep ==
    /\ au'.pc = "poll" =>
          /\ au.now - au.start_time < PollTimeout
          /\ au'.last \in Continuing
    /\ au'.last \in Continuing =>
          /\ au'.pc = "poll"
          /\ au'.now >= au.now + au'.interval
    /\ au'.interval = au.interval + (IF au'.last = "slow_down" THEN 5 ELSE 0)
    /\ au'.last \in {"expired_token", "access_denied", "invalid_grant", "none"} =>
          /\ au'.pc = "done"
          /\ au'.poll.kind = "OAuth2AuthenticationError"
    /\ au'.last \in {"200", "RequestException"} => au'.pc # "poll"
    /\ ~(au.now - au.start_time < PollTimeout) =>
          /\ au'.last = "timeout"
          /\ au'.pc = "done"
          /\ au'.poll.kind = "OAuth2AuthenticationError"

\* C28: poll_for_authentication keeps polling only while the answer is
\* authorization_pending or slow_down and the timeout has not elapsed; every
\* other answer ends the loop at once, expired_token, access_denied and
\* unknown errors with OAuth2AuthenticationError; with the time budget used up
\* the loop ends with the timeout error; the interval never decreases and
\* grows by 5 on each slow_down.
C28_PollWhilePending == [][au.pc = "poll" => PollStep]_vars

\* C28 witness: the loop was left by the timeout after two slow_down answers
\* had raised the default interval to 15
C28_Witness ==
    /\ au.pc = "done"
    /\ au.last = "timeout"
    /\ au.interval = 15
    /\ au.poll.kind = "OAuth2AuthenticationError"

\* C29: every run of poll_for_authentication that has ended either returned
\* an actual access token (not None, not empty) or raised
\* OAuth2AuthenticationError; a 200 answer without a usable access token
\* raised.
C29_TokenOrAuthenticationError ==
    (au.pc # "idle" /\ au.poll.kind # "none") =>
        \/ au.poll.kind = "return" /\ Truthy(au.poll.value)
        \/ au.poll.kind = "OAuth2AuthenticationError"

====
